---- MODULE Spec2Model ----
(***************************************************************************)
(* A model of the VBI side index of RBCFLib: the region parser, the index  *)
(* builder, the index codec, the region / index-range queries and the      *)
(* record materializer (src/src/vbi_index_capi.c, src/src/RC_VBI_IOP.c,    *)
(* src/tools/vbi_index.c).                                                 *)
(*                                                                         *)
(* Text is modelled as a sequence of one-character strings.  int64_t is    *)
(* modelled by the checker's own integers (INT64_MAX is the largest of     *)
(* them), int32_t / int by a narrower two's-complement width Int32Bits.    *)
(***************************************************************************)
EXTENDS Integers, Sequences, FiniteSets, TLC

VARIABLES src, bld, vbi, idx, out, ctx, qs

vars == <<src, bld, vbi, idx, out, ctx, qs>>

(***************************************************************************)
(* Bounds of the model.                                                    *)
(***************************************************************************)
\* longest region string handed to parse_regions
MaxStrLen == 5
\* sizeof(region_t.chrom), scaled down from 128 so that MaxStrLen reaches it
ChromBufSize == 4
\* width of int32_t / int in bits, scaled down from 32
Int32Bits == 8

\* most records in a source file
MaxRecs == 2
\* stream token of the first record (the header ends there)
HdrLen == 2
\* first capacity of the builder's three parallel arrays, scaled down from 1024
InitAlloc == 1
\* first capacity of the builder's chromosome table, scaled down from 64
InitMaxChroms == 1
\* most samples in a source header
MaxSamples == 1

\* how many operations a behaviour calls
MaxCalls == 2

\* stands for INT64_MAX: the largest integer of the checker
INT64_MAX == 2147483647

(***************************************************************************)
(* Integer and text helpers.                                               *)
(***************************************************************************)
Pow2(n) == 2 ^ n

\* (int32_t)x : keep the low Int32Bits bits, two's complement
ToInt32(x) ==
    LET m == x % Pow2(Int32Bits)
    IN  IF m >= Pow2(Int32Bits - 1) THEN m - Pow2(Int32Bits) ELSE m

Min(a, b) == IF a < b THEN a ELSE b
Max(a, b) == IF a > b THEN a ELSE b

Digit == [c \in {"0", "1", "2", "3", "4", "5", "6", "7", "8", "9"} |->
            CASE c = "0" -> 0 [] c = "1" -> 1 [] c = "2" -> 2 [] c = "3" -> 3
              [] c = "4" -> 4 [] c = "5" -> 5 [] c = "6" -> 6 [] c = "7" -> 7
              [] c = "8" -> 8 [] c = "9" -> 9]

IsDigit(c) == c \in DOMAIN Digit

\* index of the first occurrence of c in s, 0 when absent  (strchr)
RECURSIVE StrChrFrom(_, _, _)
StrChrFrom(s, c, i) ==
    IF i > Len(s) THEN 0
    ELSE IF s[i] = c THEN i
    ELSE StrChrFrom(s, c, i + 1)

StrChr(s, c) == StrChrFrom(s, c, 1)

\* value of the leading run of decimal digits of s, acc so far
RECURSIVE DigitsValue(_, _)
DigitsValue(s, acc) ==
    IF s = <<>> \/ ~IsDigit(s[1]) THEN acc
    ELSE DigitsValue(Tail(s), acc * 10 + Digit[s[1]])

\* atoll: optional sign, then the leading digits; 0 when there are none
Atoll(s) ==
    IF s # <<>> /\ s[1] = "-" THEN 0 - DigitsValue(Tail(s), 0)
    ELSE IF s # <<>> /\ s[1] = "+" THEN DigitsValue(Tail(s), 0)
    ELSE DigitsValue(s, 0)

\* strncpy(dst, s, n) followed by a terminator: the first n characters
Prefix(s, n) == SubSeq(s, 1, Min(n, Len(s)))

(***************************************************************************)
(* Region parser.                                                          *)
(***************************************************************************)
\* region_t; overflow records that parse_region wrote past chrom[]
Region(chrom, start, end, is_point, overflow) ==
    [chrom |-> chrom, start |-> start, end |-> end,
     is_point |-> is_point, overflow |-> overflow]

\* parse_region: chr, chr:pos, chr:start-end
parse_region(str) ==
    LET colon == StrChr(str, ":")
    IN  IF colon = 0
        THEN Region(Prefix(str, ChromBufSize - 1), 0, INT64_MAX, FALSE, FALSE)
        ELSE LET clen  == colon - 1
                 coord == SubSeq(str, colon + 1, Len(str))
                 dash  == StrChr(coord, "-")
                 chrom == SubSeq(str, 1, clen)
                 over  == clen >= ChromBufSize
             IN  IF dash = 0
                 THEN Region(chrom, Atoll(coord), Atoll(coord), TRUE, over)
                 ELSE Region(chrom, Atoll(coord),
                             Atoll(SubSeq(coord, dash + 1, Len(coord))),
                             FALSE, over)

\* strtok_r(.., ","): the maximal comma-free runs of s, in order
RECURSIVE StrTok(_, _, _)
StrTok(s, cur, acc) ==
    IF s = <<>> THEN (IF cur = <<>> THEN acc ELSE Append(acc, cur))
    ELSE IF s[1] = ","
         THEN StrTok(Tail(s), <<>>, IF cur = <<>> THEN acc ELSE Append(acc, cur))
         ELSE StrTok(Tail(s), Append(cur, s[1]), acc)

\* parse_regions: one region_t per token
parse_regions(str) ==
    LET toks == StrTok(str, <<>>, <<>>)
    IN  [k \in 1..Len(toks) |-> parse_region(toks[k])]


(***************************************************************************)
(* The source file and the external decoder.                               *)
(*                                                                         *)
(* A source file is its header (HdrLen tokens, nsamples samples) followed  *)
(* by its records.  A record is one token long: the record with 0-based    *)
(* number k starts at stream token HdrLen + k.                             *)
(***************************************************************************)
ChromNames == {<<"1">>, <<"2">>}

\* a position beyond the range of int32_t
BigPos == Pow2(Int32Bits - 1) + 1

\* 0-based positions (bcf1_t.pos) of the records of the model
PosSet == {0, 1, BigPos - 1}

\* info keys carried by a record (flag-typed), in record order
InfoSet == {<<>>, <<"D", "P">>}

Rec(chrom, pos, info) == [chrom |-> chrom, pos |-> pos, info |-> info]

RECURSIVE SeqsUpTo(_, _)
SeqsUpTo(S, n) ==
    IF n = 0 THEN {<<>>}
    ELSE SeqsUpTo(S, n - 1) \cup
         {Append(s, x) : s \in {q \in SeqsUpTo(S, n - 1) : Len(q) = n - 1}, x \in S}

\* stream token of the end of file
EofTok(file) == HdrLen + Len(file.recs)

\* bcf_read at stream token tok: 0 and the record there, or -1
bcf_read(file, tok) ==
    IF tok >= HdrLen /\ tok < EofTok(file)
    THEN [ret |-> 0, rec |-> file.recs[tok - HdrLen + 1], tok |-> tok + 1]
    ELSE [ret |-> -1, rec |-> Rec(<<>>, 0, <<>>), tok |-> tok]

(***************************************************************************)
(* Index builder (do_index), one loop iteration per step.                  *)
(***************************************************************************)
\* the linear find of the chromosome table: 0-based slot, or -1
RECURSIVE FindChrom(_, _, _)
FindChrom(names, chr, i) ==
    IF i > Len(names) THEN -1
    ELSE IF names[i] = chr THEN i - 1
    ELSE FindChrom(names, chr, i + 1)

\* state of do_index after hts_open, bcf_hdr_read and the allocations
BuilderStart(file, tool) ==
    [pc |-> "scan", tool |-> tool, fpos |-> HdrLen,
     num_sample |-> file.nsamples,
     max_chroms |-> InitMaxChroms, chrom_names |-> <<>>, chrom_id |-> -1,
     alloc |-> InitAlloc,
     chrom_ids |-> <<>>, positions |-> <<>>, offsets |-> <<>>,
     wrote_past |-> FALSE, fault |-> "none", status |-> "running"]

\* find-or-add of the chromosome name, with the doubling of the table
InternChrom(b, chr) ==
    LET found == FindChrom(b.chrom_names, chr, 1)
    IN  IF found >= 0
        THEN [b EXCEPT !.chrom_id = found]
        ELSE LET cap == IF Len(b.chrom_names) = b.max_chroms
                        THEN b.max_chroms * 2 ELSE b.max_chroms
             IN  [b EXCEPT !.max_chroms = cap,
                           !.wrote_past = b.wrote_past \/ Len(b.chrom_names) >= cap,
                           !.chrom_names = Append(b.chrom_names, chr),
                           !.chrom_id = Len(b.chrom_names)]

\* the offset the tool's builder stores: bgzf_tell after bcf_read
OffsetAfterRead(this_offset, after) == after

\* the offset the library's builder stores: bgzf_tell before bcf_read
OffsetBeforeRead(this_offset, after) == this_offset

\* mutation of AppendTriple: the arrays are never grown
AppendTripleNoGrow(b, chrom_id, position, offset) ==
    [b EXCEPT !.wrote_past = b.wrote_past \/ Len(b.chrom_ids) >= b.alloc,
              !.chrom_ids = Append(b.chrom_ids, chrom_id),
              !.positions = Append(b.positions, position),
              !.offsets = Append(b.offsets, offset)]

\* append of (chrom_id, position, offset), with the doubling of the arrays
AppendTriple(b, chrom_id, position, offset) ==
    LET cap == IF Len(b.chrom_ids) = b.alloc THEN b.alloc * 2 ELSE b.alloc
    IN  [b EXCEPT !.alloc = cap,
                  !.wrote_past = b.wrote_past \/ Len(b.chrom_ids) >= cap,
                  !.chrom_ids = Append(b.chrom_ids, chrom_id),
                  !.positions = Append(b.positions, position),
                  !.offsets = Append(b.offsets, offset)]

\* mutation of StoredPosition: the 0-based position is stored
StoredPositionZeroBased(rec) == rec.pos

\* 1-based position stored for a record
StoredPosition(rec) == rec.pos + 1

\* body of the scan loop for the record rd read at b.fpos
ScanRecord(b, rd) ==
    LET b1  == InternChrom([b EXCEPT !.fpos = rd.tok], rd.rec.chrom)
        off == IF b.tool THEN OffsetAfterRead(b.fpos, rd.tok)
               ELSE OffsetBeforeRead(b.fpos, rd.tok)
    IN  AppendTriple(b1, b1.chrom_id, StoredPosition(rd.rec), off)

\* the whole scan loop, from builder state b to the state at the failed read
RECURSIVE ScanAll(_, _)
ScanAll(file, b) ==
    LET rd == bcf_read(file, b.fpos)
    IN  IF rd.ret # 0 THEN b ELSE ScanAll(file, ScanRecord(b, rd))

(***************************************************************************)
(* Index codec: the bytes do_index writes and vbi_index_load reads.        *)
(***************************************************************************)
CharCode == [c \in {"1", "2"} |-> IF c = "1" THEN 49 ELSE 50]

CodeChar(byte) == IF byte = 49 THEN "1" ELSE IF byte = 50 THEN "2" ELSE "?"

RECURSIVE ShiftRight8(_, _)
ShiftRight8(x, k) == IF k = 0 THEN x ELSE ShiftRight8(x \div 256, k - 1)

\* the n bytes of the integer x, little-endian two's complement (fwrite)
EncodeInt(x, n) ==
    [k \in 1..n |->
        IF x >= 0 THEN ShiftRight8(x, k - 1) % 256
        ELSE 255 - (ShiftRight8(0 - x - 1, k - 1) % 256)]

\* the integer held by little-endian two's-complement bytes (fread)
RECURSIVE DecodeFrom(_, _, _)
DecodeFrom(bytes, k, neg) ==
    IF k = 0 THEN 0
    ELSE LET d == IF neg THEN 255 - bytes[Len(bytes) - k + 1]
                  ELSE bytes[Len(bytes) - k + 1]
         IN  d + 256 * DecodeFrom(bytes, k - 1, neg)

DecodeInt(bytes) ==
    LET neg == bytes[Len(bytes)] >= 128
        mag == DecodeFrom(bytes, Len(bytes), neg)
    IN  IF neg THEN 0 - mag - 1 ELSE mag

RECURSIVE Concat(_)
Concat(ss) == IF ss = <<>> THEN <<>> ELSE Head(ss) \o Concat(Tail(ss))

NameBytes(name) == [k \in 1..Len(name) |-> CharCode[name[k]]]

\* one chromosome-table entry: int32 length, then the raw bytes
EncodeName(name) == EncodeInt(Len(name), 4) \o NameBytes(name)

\* mutation of EncodeTriple: the position is narrowed to int32_t first
EncodeTripleNarrow(chrom_id, position, offset) ==
    EncodeInt(chrom_id, 4) \o EncodeInt(ToInt32(position), 8) \o EncodeInt(offset, 8)

\* one record triple: int32 chrom_id, int64 position, int64 offset
EncodeTriple(chrom_id, position, offset) ==
    EncodeInt(chrom_id, 4) \o EncodeInt(position, 8) \o EncodeInt(offset, 8)

\* the file do_index writes from its finished builder state
IndexBytes(b) ==
    EncodeInt(b.num_sample, 8) \o EncodeInt(Len(b.chrom_ids), 8) \o
    EncodeInt(Len(b.chrom_names), 4) \o
    Concat([i \in 1..Len(b.chrom_names) |-> EncodeName(b.chrom_names[i])]) \o
    Concat([i \in 1..Len(b.chrom_ids) |->
               EncodeTriple(b.chrom_ids[i], b.positions[i], b.offsets[i])])

(***************************************************************************)
(* vbi_index_load.                                                         *)
(*                                                                         *)
(* A load ends in one of: a loaded Index, NULL, or a crash of the process. *)
(* The crash is an outcome of the undefined behaviour on two paths: the    *)
(* cleanup calls free on name slots that malloc left uninitialised, and    *)
(* the Interval Index is built from chrom_names[chrom_ids[i]] with no      *)
(* bounds check.  malloc(0) is taken to return a non-NULL pointer, as on   *)
(* every platform the package builds on.                                   *)
(***************************************************************************)
LoadNull == [state |-> "null"]
LoadCrash == [state |-> "crash"]

\* fread(&x, n, 1, f) at 1-based cursor p succeeds iff n bytes remain
Avail(bytes, p, n) == p + n - 1 <= Len(bytes)

Field(bytes, p, n) == DecodeInt(SubSeq(bytes, p, p + n - 1))

\* the chromosome-table loop from entry i (0-based) at cursor p
RECURSIVE ReadNames(_, _, _, _, _)
ReadNames(bytes, p, i, n_chroms, names) ==
    IF i >= n_chroms THEN [ok |-> TRUE, p |-> p, names |-> names, ub |-> FALSE]
    ELSE IF ~Avail(bytes, p, 4)
    THEN \* slot i and every later slot were never assigned
         [ok |-> FALSE, p |-> p, names |-> names, ub |-> TRUE]
    ELSE LET len == Field(bytes, p, 4)
         IN  IF len < 0
             THEN \* fread of (size_t)len bytes into a malloc(len+1) buffer
                  [ok |-> FALSE, p |-> p, names |-> names, ub |-> TRUE]
             ELSE IF ~Avail(bytes, p + 4, len)
             THEN \* slot i is allocated, the later slots were never assigned
                  [ok |-> FALSE, p |-> p, names |-> names,
                   ub |-> i + 1 < n_chroms]
             ELSE ReadNames(bytes, p + 4 + len, i + 1, n_chroms,
                            Append(names,
                                   [k \in 1..len |-> CodeChar(bytes[p + 4 + k - 1])]))

\* the record loop from record i (0-based) at cursor p
RECURSIVE ReadTriples(_, _, _, _, _)
ReadTriples(bytes, p, i, n, acc) ==
    IF i >= n THEN [ok |-> TRUE, ids |-> acc.ids, pos |-> acc.pos, off |-> acc.off]
    ELSE IF ~Avail(bytes, p, 20)
    THEN [ok |-> FALSE, ids |-> acc.ids, pos |-> acc.pos, off |-> acc.off]
    ELSE ReadTriples(bytes, p + 20, i + 1, n,
                     [ids |-> Append(acc.ids, Field(bytes, p, 4)),
                      pos |-> Append(acc.pos, Field(bytes, p + 4, 8)),
                      off |-> Append(acc.off, Field(bytes, p + 12, 8))])

\* chrom_names[chrom_id]; reading outside the table yields some other memory
ChromNameAt(chrom_names, chrom_id) ==
    IF chrom_id >= 0 /\ chrom_id < Len(chrom_names)
    THEN chrom_names[chrom_id + 1] ELSE <<"?">>

\* cr_add(cr, chrom_names[chrom_ids[i]], (int32_t)pos, (int32_t)pos, i)
CrEntry(chrom_names, chrom_id, position, label) ==
    [ctg |-> ChromNameAt(chrom_names, chrom_id),
     st |-> ToInt32(position), en |-> ToInt32(position), label |-> label]

\* the Interval Index built at load; cr_index orders it, a query reads a set
BuildCr(chrom_names, chrom_ids, positions) ==
    {CrEntry(chrom_names, chrom_ids[i], positions[i], i - 1) :
        i \in 1..Len(chrom_ids)}

\* the slots (0-based) of chrom_names that the name loop assigned from
\* malloc(len+1) before vbi_index_load on bytes stopped reading names
AssignedNameSlots(bytes) ==
    IF ~Avail(bytes, 17, 4) THEN {}
    ELSE LET nm == ReadNames(bytes, 21, 0, Field(bytes, 17, 4), <<>>)
         IN  0..(Len(nm.names) + (IF ~nm.ok /\ Avail(bytes, nm.p, 4) THEN 1 ELSE 0) - 1)

\* the slots of chrom_names that the fail path of vbi_index_load hands to
\* free(): every i < idx->n_chroms, once chrom_names is set
FreedNameSlots(bytes) ==
    IF ~Avail(bytes, 17, 4) THEN {}
    ELSE LET n_chroms == Field(bytes, 17, 4)
             nm == ReadNames(bytes, 21, 0, n_chroms, <<>>)
             tr == ReadTriples(bytes, nm.p, 0, Field(bytes, 9, 8),
                               [ids |-> <<>>, pos |-> <<>>, off |-> <<>>])
         IN  IF ~nm.ok \/ Field(bytes, 9, 8) < 0 \/ ~tr.ok
             THEN 0..(n_chroms - 1) ELSE {}

\* the outcomes of vbi_index_load on the file f
LoadOutcomes(f) ==
    IF ~f.exists THEN {LoadNull}
    ELSE LET bytes == f.bytes
         IN  IF ~Avail(bytes, 1, 8) \/ ~Avail(bytes, 9, 8) \/ ~Avail(bytes, 17, 4)
             THEN {LoadNull}
             ELSE
             LET num_sample == Field(bytes, 1, 8)
                 num_marker == Field(bytes, 9, 8)
                 n_chroms   == Field(bytes, 17, 4)
                 nm == ReadNames(bytes, 21, 0, n_chroms, <<>>)
             IN  IF ~nm.ok
                 THEN (IF nm.ub THEN {LoadNull, LoadCrash} ELSE {LoadNull})
                 ELSE
                 LET tr == ReadTriples(bytes, nm.p, 0, num_marker,
                                       [ids |-> <<>>, pos |-> <<>>, off |-> <<>>])
                     loaded == [state |-> "loaded",
                                num_sample |-> num_sample,
                                num_marker |-> num_marker,
                                n_chroms |-> n_chroms,
                                chrom_names |-> nm.names,
                                chrom_ids |-> tr.ids,
                                positions |-> tr.pos,
                                offsets |-> tr.off,
                                cr |-> BuildCr(nm.names, tr.ids, tr.pos)]
                 IN  IF num_marker < 0 \/ ~tr.ok
                     THEN \* (size_t)num_marker cannot be allocated or read
                          {LoadNull}
                     ELSE IF \A i \in 1..Len(tr.ids) :
                                 tr.ids[i] >= 0 /\ tr.ids[i] < n_chroms
                     THEN {loaded}
                     ELSE {LoadCrash, loaded}

(***************************************************************************)
(* Record materializer (vbi_query_variants_basic).                         *)
(*                                                                         *)
(* A row holds the columns the model's records carry: chrom, pos, index    *)
(* and, when include_info is set, INFO.  The other core columns are copied *)
(* from the decoded record in the same statements as chrom and pos.        *)
(***************************************************************************)
\* NA_INTEGER is INT_MIN
NA_INTEGER == 0 - Pow2(Int32Bits - 1)

\* NA_STRING, which is no text
NA_STRING == <<"<NA>">>

\* bgzf_seek / hseek to a stored offset: 0 unless the offset is negative
SeekOk(offset) == offset >= 0

\* the row of all-missing sentinels
SentinelRow(inc_info) ==
    IF inc_info
    THEN [chrom |-> NA_STRING, pos |-> NA_INTEGER, index |-> NA_INTEGER,
          INFO |-> NA_STRING]
    ELSE [chrom |-> NA_STRING, pos |-> NA_INTEGER, index |-> NA_INTEGER]

\* the keys joined by ';'
RECURSIVE JoinKeys(_)
JoinKeys(keys) ==
    IF keys = <<>> THEN <<>>
    ELSE IF Len(keys) = 1 THEN <<keys[1]>>
    ELSE <<keys[1], ";">> \o JoinKeys(Tail(keys))

\* ktmp after "ktmp.l = 0" and the loop over the record's info fields: the
\* text is rewritten only when a field is written, else the old text stays
InfoBuffer(ktmp, rec) ==
    IF rec.info = <<>> THEN ktmp
    ELSE [alloc |-> TRUE, s |-> JoinKeys(rec.info)]

\* the row of a decoded record
DecodedRow(rec, idx_var, ktmp, inc_info) ==
    IF inc_info
    THEN [chrom |-> rec.chrom, pos |-> ToInt32(rec.pos + 1), index |-> idx_var + 1,
          INFO |-> IF ktmp.alloc THEN ktmp.s ELSE NA_STRING]
    ELSE [chrom |-> rec.chrom, pos |-> ToInt32(rec.pos + 1), index |-> idx_var + 1]

\* whether the seek or the decode for record idx_var fails
FetchFails(file, index, idx_var) ==
    \/ ~SeekOk(index.offsets[idx_var + 1])
    \/ bcf_read(file, index.offsets[idx_var + 1]).ret < 0

\* the loop over hits[k..]: the rows, with ktmp carried from row to row
RECURSIVE MaterializeFrom(_, _, _, _, _, _)
MaterializeFrom(file, index, hits, k, ktmp, inc_info) ==
    IF k > Len(hits) THEN <<>>
    ELSE IF FetchFails(file, index, hits[k])
    THEN <<SentinelRow(inc_info)>> \o
         MaterializeFrom(file, index, hits, k + 1, ktmp, inc_info)
    ELSE LET rec == bcf_read(file, index.offsets[hits[k] + 1]).rec
             kt  == IF inc_info THEN InfoBuffer(ktmp, rec) ELSE ktmp
         IN  <<DecodedRow(rec, hits[k], kt, inc_info)>> \o
             MaterializeFrom(file, index, hits, k + 1, kt, inc_info)

\* vbi_query_variants_basic: one row per hit, in the order of hits
vbi_query_variants_basic(file, index, hits, inc_info) ==
    MaterializeFrom(file, index, hits, 1, [alloc |-> FALSE, s |-> <<>>], inc_info)

(***************************************************************************)
(* Query engine.                                                           *)
(***************************************************************************)
\* mutation of StartOf: the start is taken as 0-based already
StartOfZeroBased(start_idx) == start_idx

\* the 0-based start of an index-range query given 1-based
StartOf(start_idx) == start_idx - 1

\* RC_VBI_query_by_indices(_ctx): the 0-based ids of a 1-based range
IndexRangeHits(num_marker, start_idx, end_idx) ==
    LET s0 == StartOf(start_idx)
        e0 == end_idx - 1
        start == IF s0 < 0 THEN 0 ELSE s0
        end == IF e0 >= num_marker THEN num_marker - 1 ELSE e0
    IN  IF end < start THEN <<>>
        ELSE [i \in 1..(end - start + 1) |-> start + i - 1]

\* mutation of RegionMatches: the lower bound is not tested
RegionMatchesNoLower(r, chr, pos) ==
    /\ chr = r.chrom
    /\ pos <= r.end

\* whether region r matches a record on chromosome chr at position pos
RegionMatches(r, chr, pos) ==
    /\ chr = r.chrom
    /\ pos >= r.start
    /\ pos <= r.end

\* mutation of HitsForRecord: no break after a match, one hit per matching region
HitsForRecordNoBreak(regions, chr, pos) ==
    Cardinality({r \in 1..Len(regions) : RegionMatches(regions[r], chr, pos)})

\* the inner loop over the regions: 1 when one matches (then break), else 0;
\* the count of hits appended for record i
HitsForRecord(regions, chr, pos) ==
    IF \E r \in 1..Len(regions) : RegionMatches(regions[r], chr, pos)
    THEN 1 ELSE 0

\* vbi_index_query_region: the loop over the records from record i (0-based)
RECURSIVE LinearScanFrom(_, _, _)
LinearScanFrom(index, regions, i) ==
    IF i >= index.num_marker THEN <<>>
    ELSE LET chr == ChromNameAt(index.chrom_names, index.chrom_ids[i + 1])
             n   == HitsForRecord(regions, chr, index.positions[i + 1])
         IN  [k \in 1..n |-> i] \o LinearScanFrom(index, regions, i + 1)

vbi_index_query_region(index, region_str) ==
    LinearScanFrom(index, parse_regions(region_str), 0)

\* the overlap test of the Interval Index on stored interval [st, en]
CrOverlaps(st, en, qst, qen) == st <= qen /\ qst <= en

\* the tree-accelerated region query: the same predicate, resolved on the
\* entries of the Interval Index
vbi_index_query_region_cgranges(index, region_str) ==
    LET regions == parse_regions(region_str)
    IN  {e.label : e \in {x \in index.cr :
            \E r \in 1..Len(regions) :
                /\ x.ctg = regions[r].chrom
                /\ CrOverlaps(x.st, x.en, regions[r].start, regions[r].end)}}

\* do_query of the tool: an interval tree over the regions, probed with
\* each record's position, both cast to int32_t
do_query_hits(index, region_str) ==
    LET regions == parse_regions(region_str)
    IN  {i \in 0..(index.num_marker - 1) :
            \E r \in 1..Len(regions) :
                /\ regions[r].chrom =
                      ChromNameAt(index.chrom_names, index.chrom_ids[i + 1])
                /\ CrOverlaps(ToInt32(regions[r].start), ToInt32(regions[r].end),
                              ToInt32(index.positions[i + 1]),
                              ToInt32(index.positions[i + 1]))}

(***************************************************************************)
(* Inputs of the region parser.                                            *)
(***************************************************************************)
RegionAlphabet == {"1", "2", ":", "-", ","}

RECURSIVE StringsOfLen(_)
StringsOfLen(n) ==
    IF n = 0 THEN {<<>>}
    ELSE {Append(s, c) : s \in StringsOfLen(n - 1), c \in RegionAlphabet}

RegionStrings == UNION {StringsOfLen(n) : n \in 0..MaxStrLen}

NoOut == [op |-> "none"]
NoSrc == [recs |-> <<>>, nsamples |-> 0]
NoBld == [pc |-> "idle"]
NoVbi == [exists |-> FALSE, bytes |-> <<>>, damage |-> "none"]
NoIdx == [state |-> "none"]

\* no session context has been created
NoCtx == [state |-> "none"]

\* no materialization is in flight
NoQs == <<>>

(***************************************************************************)
(* Specification of the region parser alone.                               *)
(***************************************************************************)
InitParse ==
    /\ src = NoSrc
    /\ bld = NoBld
    /\ vbi = NoVbi
    /\ idx = NoIdx
    /\ out \in {[op |-> "input", str |-> s] : s \in RegionStrings}
    /\ ctx = NoCtx
    /\ qs = NoQs

\* one call of parse_regions on the string under test
ParseRegions ==
    /\ out.op = "input"
    /\ out' = [op |-> "parse", str |-> out.str, regions |-> parse_regions(out.str)]
    /\ UNCHANGED <<src, bld, vbi, idx, ctx, qs>>

NextParse == ParseRegions

SpecParse == InitParse /\ [][NextParse]_vars

(***************************************************************************)
(* Specification of the builder, the codec and the loader: a source file   *)
(* is indexed by the library's or by the tool's do_index, the index file   *)
(* may be damaged before it is loaded, and vbi_index_load reads it.        *)
(***************************************************************************)
SourcesNoInfo ==
    {[recs |-> rs, nsamples |-> ns] :
        rs \in SeqsUpTo({Rec(c, p, <<>>) : c \in ChromNames, p \in PosSet}, MaxRecs),
        ns \in 0..MaxSamples}

InitIndex ==
    /\ src \in SourcesNoInfo
    /\ bld = NoBld
    /\ vbi = NoVbi
    /\ idx = NoIdx
    /\ out = NoOut
    /\ ctx = NoCtx
    /\ qs = NoQs

\* what the environment may make fail before the scan: nothing, the open of
\* the source, the read of its header
OpenFaults == {"none", "hts_open", "bcf_hdr_read"}

\* do_index up to the scan loop: on a fault the library raises an R error
\* and the tool returns 1
OpenSource(file, tool, fault) ==
    IF fault = "none" THEN BuilderStart(file, tool)
    ELSE [pc |-> "failed", tool |-> tool, fault |-> fault,
          status |-> IF tool THEN "1" ELSE "raised"]

\* the index file after the writes of do_index, of which only the first n
\* bytes reached the file when fault is "fwrite"
WrittenFile(b, fault, n) ==
    IF fault = "fwrite"
    THEN [exists |-> TRUE, bytes |-> SubSeq(IndexBytes(b), 1, n), damage |-> "short"]
    ELSE [exists |-> TRUE, bytes |-> IndexBytes(b), damage |-> "none"]

\* the status do_index ends with: 1 when fopen fails; the results of fwrite
\* and fclose are not looked at
WriteStatus(fault) == IF fault = "fopen" THEN "1" ELSE "0"

\* do_index up to the scan loop: the library's (RC_VBI_index) or the tool's
DoIndexOpen ==
    /\ bld.pc = "idle"
    /\ idx = NoIdx
    /\ \E tool \in BOOLEAN, fault \in OpenFaults :
          bld' = OpenSource(src, tool, fault)
    /\ UNCHANGED <<src, vbi, idx, out, ctx, qs>>

\* one iteration of the scan loop that reads a record
DoIndexRead ==
    /\ bld.pc = "scan"
    /\ LET rd == bcf_read(src, bld.fpos)
       IN  /\ rd.ret = 0
           /\ bld' = ScanRecord(bld, rd)
    /\ UNCHANGED <<src, vbi, idx, out, ctx, qs>>

\* the iteration whose read fails, and the writing of the index file
DoIndexWrite ==
    /\ bld.pc = "scan"
    /\ bcf_read(src, bld.fpos).ret # 0
    /\ \E fault \in {"none", "fopen", "fwrite"} :
          \E n \in IF fault = "fwrite" THEN 0..(Len(IndexBytes(bld)) - 1) ELSE {0} :
              /\ bld' = [bld EXCEPT !.pc = IF fault = "fopen" THEN "failed" ELSE "done",
                                    !.fault = fault,
                                    !.status = WriteStatus(fault)]
              /\ vbi' = IF fault = "fopen" THEN vbi ELSE WrittenFile(bld, fault, n)
    /\ UNCHANGED <<src, idx, out, ctx, qs>>

\* 1-based byte at which record triple i (0-based) of an undamaged file starts
TripleStart(b, i) ==
    21 + Len(Concat([k \in 1..Len(b.chrom_names) |-> EncodeName(b.chrom_names[k])]))
       + 20 * i

\* bytes with the n bytes at p replaced by new
Overwrite(bytes, p, new) ==
    [k \in 1..Len(bytes) |->
        IF k >= p /\ k < p + Len(new) THEN new[k - p + 1] ELSE bytes[k]]

\* the environment cuts the index file short after k bytes
TruncateIndexFile ==
    /\ vbi.exists /\ vbi.damage = "none" /\ idx = NoIdx
    /\ \E k \in 0..(Len(vbi.bytes) - 1) :
          vbi' = [vbi EXCEPT !.bytes = SubSeq(vbi.bytes, 1, k), !.damage = "cut"]
    /\ UNCHANGED <<src, bld, idx, out, ctx, qs>>

\* the environment stores a chrom_id outside the chromosome table
CorruptChromId ==
    /\ vbi.exists /\ vbi.damage = "none" /\ idx = NoIdx
    /\ \E i \in 0..(Len(bld.chrom_ids) - 1), v \in {-1, Len(bld.chrom_names)} :
          vbi' = [vbi EXCEPT
                    !.bytes = Overwrite(vbi.bytes, TripleStart(bld, i), EncodeInt(v, 4)),
                    !.damage = "chrom_id"]
    /\ UNCHANGED <<src, bld, idx, out, ctx, qs>>

\* vbi_index_load on the index file as it is now
VbiIndexLoad ==
    /\ idx = NoIdx
    /\ bld.pc \in {"idle", "done"}
    /\ idx' \in LoadOutcomes(vbi)
    /\ UNCHANGED <<src, bld, vbi, out, ctx, qs>>

NextIndex ==
    \/ DoIndexOpen
    \/ DoIndexRead
    \/ DoIndexWrite
    \/ TruncateIndexFile
    \/ CorruptChromId
    \/ VbiIndexLoad

SpecIndex == InitIndex /\ [][NextIndex]_vars

(***************************************************************************)
(* Index-range queries on a loaded index of a built file.                  *)
(***************************************************************************)
\* the library builder run to the end on file
BuiltIndex(file) ==
    [ScanAll(file, BuilderStart(file, FALSE)) EXCEPT !.pc = "done", !.status = "0"]

\* the index file that build wrote
BuiltIndexFile(file) == WrittenFile(BuiltIndex(file), "none", 0)

SourcesRange ==
    {[recs |-> rs, nsamples |-> 0] :
        rs \in SeqsUpTo({Rec(<<"1">>, p, i) : p \in {0, BigPos - 1}, i \in InfoSet},
                        MaxRecs)}

InitRange ==
    /\ src \in SourcesRange
    /\ bld = BuiltIndex(src)
    /\ vbi = BuiltIndexFile(src)
    /\ idx = NoIdx
    /\ out = NoOut
    /\ ctx = NoCtx
    /\ qs = NoQs

\* the environment damages a stored offset: a negative one (the seek fails)
\* or one past the end of the file (the decode fails)
CorruptOffset ==
    /\ vbi.exists /\ vbi.damage = "none" /\ idx = NoIdx
    /\ \E i \in 0..(Len(bld.chrom_ids) - 1), v \in {-1, EofTok(src) + 1} :
          vbi' = [vbi EXCEPT
                    !.bytes = Overwrite(vbi.bytes, TripleStart(bld, i) + 12,
                                        EncodeInt(v, 8)),
                    !.damage = "offset"]
    /\ UNCHANGED <<src, bld, idx, out, ctx, qs>>

\* A query leaves the file and the index as they were, so its result does
\* not depend on the queries before it: a behaviour makes one query.

\* the empty data frame or the rows of the hits
QueryRows(hits, inc_info) ==
    IF hits = <<>> THEN <<>>
    ELSE vbi_query_variants_basic(src, idx, hits, inc_info)

QueryOut(op, arg, inc_info, hits) ==
    [op |-> op, arg |-> arg, inc_info |-> inc_info, hits |-> hits,
     rows |-> QueryRows(hits, inc_info)]

\* index-range query on the session context
RC_VBI_query_by_indices_ctx ==
    /\ idx.state = "loaded"
    /\ out = NoOut
    /\ \E start_idx \in (-1)..(MaxRecs + 2), end_idx \in (-1)..(MaxRecs + 2),
          inc_info \in BOOLEAN :
          out' = QueryOut("by_indices_ctx", <<start_idx, end_idx>>, inc_info,
                          IndexRangeHits(idx.num_marker, start_idx, end_idx))
    /\ UNCHANGED <<src, bld, vbi, idx, ctx, qs>>

\* index-range query that reopens the file; no INFO, FORMAT or genotypes
RC_VBI_query_by_indices ==
    /\ idx.state = "loaded"
    /\ out = NoOut
    /\ \E start_idx \in (-1)..(MaxRecs + 2), end_idx \in (-1)..(MaxRecs + 2) :
          out' = QueryOut("by_indices", <<start_idx, end_idx>>, FALSE,
                          IndexRangeHits(idx.num_marker, start_idx, end_idx))
    /\ UNCHANGED <<src, bld, vbi, idx, ctx, qs>>

NextRange ==
    \/ CorruptOffset
    \/ VbiIndexLoad
    \/ RC_VBI_query_by_indices_ctx
    \/ RC_VBI_query_by_indices

SpecRange == InitRange /\ [][NextRange]_vars

(***************************************************************************)
(* Region queries on a loaded index of a built file.                       *)
(***************************************************************************)
\* the decimal digits, as a region string spells them
DigitChar == <<"0", "1", "2", "3", "4", "5", "6", "7", "8", "9">>

RECURSIVE DecimalText(_)
DecimalText(n) ==
    IF n < 10 THEN <<DigitChar[n + 1]>>
    ELSE DecimalText(n \div 10) \o <<DigitChar[(n % 10) + 1]>>

\* the 1-based coordinates a query names
QueryCoords == {1, BigPos}

\* region tokens: a chromosome, a point, a range
QueryTokens ==
    ChromNames
    \cup {c \o <<":">> \o DecimalText(a) : c \in ChromNames, a \in QueryCoords}
    \cup {c \o <<":">> \o DecimalText(a) \o <<"-">> \o DecimalText(b) :
             c \in ChromNames, a \in QueryCoords, b \in QueryCoords}

\* region lists of one token or of two
QueryStrings ==
    QueryTokens \cup {s \o <<",">> \o u : s \in QueryTokens, u \in QueryTokens}

SourcesRegion ==
    {[recs |-> rs, nsamples |-> 0] :
        rs \in SeqsUpTo({Rec(c, p, <<>>) : c \in ChromNames, p \in {0, BigPos - 1}},
                        MaxRecs)}

InitRegion ==
    /\ src \in SourcesRegion
    /\ bld = BuiltIndex(src)
    /\ vbi = BuiltIndexFile(src)
    /\ idx \in LoadOutcomes(vbi)
    /\ out = NoOut
    /\ ctx = NoCtx
    /\ qs = NoQs

\* the orders in which a traversal may report the set S
Orders(S) ==
    {s \in [1..Cardinality(S) -> S] : \A i, j \in 1..Cardinality(S) :
        i # j => s[i] # s[j]}

\* the members of S in ascending order
Ascending(S) ==
    CHOOSE s \in Orders(S) : \A i \in 1..(Cardinality(S) - 1) : s[i] < s[i + 1]

\* linear region query on the session context
RC_VBI_query_region ==
    /\ idx.state = "loaded"
    /\ out = NoOut
    /\ \E str \in QueryStrings, inc_info \in BOOLEAN :
          out' = QueryOut("query_region", str, inc_info,
                          vbi_index_query_region(idx, str))
    /\ UNCHANGED <<src, bld, vbi, idx, ctx, qs>>

\* tree-accelerated region query on the session context
RC_VBI_query_region_cgranges_ctx ==
    /\ idx.state = "loaded"
    /\ out = NoOut
    /\ \E str \in QueryStrings, inc_info \in BOOLEAN :
          \E hits \in Orders(vbi_index_query_region_cgranges(idx, str)) :
              out' = QueryOut("query_region_cgranges", str, inc_info, hits)
    /\ UNCHANGED <<src, bld, vbi, idx, ctx, qs>>

\* region query of the command-line tool, which writes the records it
\* matches and builds no rows
do_query ==
    /\ idx.state = "loaded"
    /\ out = NoOut
    /\ \E str \in QueryStrings :
          out' = [op |-> "do_query", arg |-> str, inc_info |-> FALSE,
                  hits |-> Ascending(do_query_hits(idx, str)), rows |-> <<>>]
    /\ UNCHANGED <<src, bld, vbi, idx, ctx, qs>>

NextRegion ==
    \/ RC_VBI_query_region
    \/ RC_VBI_query_region_cgranges_ctx
    \/ do_query

SpecRegion == InitRegion /\ [][NextRegion]_vars

(***************************************************************************)
(* Session context: RC_VBI_load_index, RC_VBI_vcf_load and the finalizer.  *)
(*                                                                         *)
(* ctx.events lists, in program order, the index loads and builds a call   *)
(* made and the resources it acquired and released.                        *)
(***************************************************************************)
Acquire(what) == <<"acquire", what>>
Release(what) == <<"release", what>>

\* the environment of one RC_VBI_vcf_load: which step after the index load
\* fails, if any
LoadFailures == {"none", "hts_open", "bcf_hdr_read", "bcf_init"}

\* the environment of one do_index: which of its opens fails, if any
BuildFailures == {"none", "hts_open", "bcf_hdr_read", "fopen"}

\* what do_index acquires and releases, and how it ends: Rf_error leaves
\* the function at once, so the lines after it do not run
DoIndexEvents(build) ==
    CASE build = "hts_open" ->
            <<<<"do_index", "raised">>>>
      [] build = "bcf_hdr_read" ->
            <<Acquire("build.fp"), <<"do_index", "raised">>>>
      [] OTHER ->
            <<Acquire("build.fp"), Acquire("build.hdr"), Acquire("build.arrays"),
              Acquire("build.rec"), Release("build.rec"), Release("build.hdr"),
              Release("build.fp"), Release("build.arrays"),
              <<"do_index", IF build = "fopen" THEN "1" ELSE "0">>>>

\* RC_VBI_vcf_load up to the point where ctx->vbi_idx is set or the call
\* has raised: first is the outcome of the first vbi_index_load, build the
\* environment of do_index, second the outcome of the load after do_index
\* rewrote the file
IndexForSession(first, second, build) ==
    IF first = LoadCrash
    THEN [events |-> <<Acquire("ctx"), <<"vbi_index_load", "crash">>>>,
          index |-> NoIdx, end |-> "crash", rebuilt |-> FALSE]
    ELSE IF first # LoadNull
    THEN [events |-> <<Acquire("ctx"), <<"vbi_index_load", "loaded">>,
                       Acquire("vbi_idx")>>,
          index |-> first, end |-> "go", rebuilt |-> FALSE]
    ELSE IF build \in {"hts_open", "bcf_hdr_read"}
    THEN [events |-> <<Acquire("ctx"), <<"vbi_index_load", "null">>>>
                     \o DoIndexEvents(build),
          index |-> NoIdx, end |-> "error", rebuilt |-> FALSE]
    ELSE IF build = "fopen"
    THEN [events |-> <<Acquire("ctx"), <<"vbi_index_load", "null">>>>
                     \o DoIndexEvents(build) \o <<Release("ctx")>>,
          index |-> NoIdx, end |-> "error", rebuilt |-> FALSE]
    ELSE IF second = LoadNull
    THEN [events |-> <<Acquire("ctx"), <<"vbi_index_load", "null">>>>
                     \o DoIndexEvents(build)
                     \o <<<<"vbi_index_load", "null">>, Release("ctx")>>,
          index |-> NoIdx, end |-> "error", rebuilt |-> TRUE]
    ELSE [events |-> <<Acquire("ctx"), <<"vbi_index_load", "null">>>>
                     \o DoIndexEvents(build)
                     \o <<<<"vbi_index_load", "loaded">>, Acquire("vbi_idx")>>,
          index |-> second, end |-> "go", rebuilt |-> TRUE]

\* RC_VBI_vcf_load after the index: the source file, its header, the decode
\* buffer, the header metadata
OpenForSession(fail) ==
    CASE fail = "hts_open" ->
            <<Release("vbi_idx"), Release("ctx")>>
      [] fail = "bcf_hdr_read" ->
            <<Acquire("fp"), Release("fp"), Release("vbi_idx"), Release("ctx")>>
      [] fail = "bcf_init" ->
            <<Acquire("fp"), Acquire("hdr"), Release("hdr"), Release("fp"),
              Release("vbi_idx"), Release("ctx")>>
      [] OTHER ->
            <<Acquire("fp"), Acquire("hdr"), Acquire("tmp_ctx"),
              Acquire("header_meta")>>

\* the context RC_VBI_vcf_load leaves behind
SessionAfterLoad(first, second, build, fail) ==
    LET ix == IndexForSession(first, second, build)
    IN  IF ix.end # "go"
        THEN [state |-> ix.end, vbi_idx |-> NoIdx, events |-> ix.events]
        ELSE IF fail # "none"
        THEN [state |-> "error", vbi_idx |-> NoIdx,
              events |-> ix.events \o OpenForSession(fail)]
        ELSE [state |-> "open", vbi_idx |-> ix.index,
              events |-> ix.events \o OpenForSession(fail)]

\* mutation of FinalizerReleases: the resources go in the order acquired
FinalizerReleasesForward(c) ==
    <<Release("vbi_idx"), Release("fp"), Release("hdr"), Release("tmp_ctx"),
      Release("header_meta"), Release("ctx")>>

\* the releases of RC_VBI_vcf_context_finalizer on the open context c
FinalizerReleases(c) ==
    <<Release("tmp_ctx"), Release("hdr"), Release("fp"), Release("vbi_idx"),
      Release("header_meta"), Release("ctx")>>

SourcesSession ==
    {[recs |-> rs, nsamples |-> 0] :
        rs \in SeqsUpTo({Rec(<<"1">>, 0, <<>>), Rec(<<"2">>, 1, <<>>)}, MaxRecs)}

InitSession ==
    /\ src \in SourcesSession
    /\ bld = BuiltIndex(src)
    /\ vbi \in {NoVbi, BuiltIndexFile(src)}
    /\ idx = NoIdx
    /\ out = NoOut
    /\ ctx = NoCtx
    /\ qs = NoQs

\* RC_VBI_load_index: the index alone, behind an external pointer
RC_VBI_load_index ==
    /\ idx = NoIdx /\ out = NoOut /\ ctx = NoCtx
    /\ \E o \in LoadOutcomes(vbi) :
          /\ idx' = IF o = LoadNull THEN NoIdx ELSE o
          /\ out' = [op |-> "load_index", first |-> o, before |-> vbi,
                     loads |-> 1, rebuilt |-> FALSE, error |-> o = LoadNull]
    /\ UNCHANGED <<src, bld, vbi, ctx, qs>>

\* RC_VBI_vcf_load with an explicit index path
RC_VBI_vcf_load ==
    /\ idx = NoIdx /\ out = NoOut /\ ctx = NoCtx
    /\ \E first \in LoadOutcomes(vbi), fail \in LoadFailures,
          build \in BuildFailures :
          LET rebuilt == BuiltIndexFile(src)
          IN  \E second \in LoadOutcomes(rebuilt) :
                 LET c == SessionAfterLoad(first, second, build, fail)
                     ix == IndexForSession(first, second, build)
                 IN  /\ ctx' = c
                     /\ vbi' = IF ix.rebuilt THEN rebuilt ELSE vbi
                     /\ out' = [op |-> "vcf_load", first |-> first, before |-> vbi,
                                loads |-> IF ix.rebuilt THEN 2 ELSE 1,
                                rebuilt |-> ix.rebuilt,
                                error |-> c.state = "error"]
    /\ UNCHANGED <<src, bld, idx, qs>>

\* the entry points that take the session's external pointer
ContextOps ==
    {"RC_VBI_query_region", "RC_VBI_query_by_indices_ctx",
     "RC_VBI_query_region_cgranges_ctx", "RC_VBI_samples", "RC_VBI_infos"}

\* the fields of the context an entry point reads once its checks passed
ContextReads(op) ==
    IF op \in {"RC_VBI_samples", "RC_VBI_infos"} THEN {"hdr"}
    ELSE {"vbi_idx", "fp", "hdr"}

\* mutation of ContextCall: the pointer is used without the NULL test
ContextCallUnchecked(c, op) ==
    [op |-> op, closed |-> c.state = "closed", error |-> FALSE,
     touched |-> ContextReads(op)]

\* an entry point on the context c: R_ExternalPtrAddr, then
\* if (!ctx) Rf_error(..) or if (!ctx || !ctx->hdr) Rf_error(..)
ContextCall(c, op) ==
    IF c.state = "closed"
    THEN [op |-> op, closed |-> TRUE, error |-> TRUE, touched |-> {}]
    ELSE [op |-> op, closed |-> FALSE, error |-> FALSE, touched |-> ContextReads(op)]

\* RC_VBI_vcf_context_finalizer on the context c: if (ctx) { releases;
\* R_SetExternalPtrAddr(extPtr, NULL); }
FinalizerOn(c) ==
    IF c.state = "closed" THEN c
    ELSE [state |-> "closed", vbi_idx |-> NoIdx,
          events |-> c.events \o FinalizerReleases(c)]

\* RC_VBI_vcf_context_finalizer, called by the collector or by hand; qs
\* lists the calls made on the external pointer
RC_VBI_vcf_context_finalizer ==
    /\ ctx.state \in {"open", "closed"}
    /\ Len(qs) < MaxCalls
    /\ ctx' = FinalizerOn(ctx)
    /\ qs' = Append(qs, [op |-> "RC_VBI_vcf_context_finalizer",
                         closed |-> ctx.state = "closed", error |-> FALSE,
                         touched |-> {}])
    /\ UNCHANGED <<src, bld, vbi, idx, out>>

\* any other entry point called on the external pointer
CallOnContext ==
    /\ ctx.state \in {"open", "closed"}
    /\ Len(qs) < MaxCalls
    /\ \E op \in ContextOps : qs' = Append(qs, ContextCall(ctx, op))
    /\ UNCHANGED <<src, bld, vbi, idx, out, ctx>>

NextSession ==
    \/ TruncateIndexFile
    \/ CorruptChromId
    \/ RC_VBI_load_index
    \/ RC_VBI_vcf_load
    \/ RC_VBI_vcf_context_finalizer

SpecSession == InitSession /\ [][NextSession]_vars

\* a session on an index file as do_index wrote it, and the calls made on
\* its external pointer
InitReuse ==
    /\ InitSession
    /\ vbi = BuiltIndexFile(src)

NextReuse ==
    \/ RC_VBI_vcf_load
    \/ RC_VBI_vcf_context_finalizer
    \/ CallOnContext

SpecReuse == InitReuse /\ [][NextReuse]_vars

(***************************************************************************)
(* Interleaved materializations.  Each source-file handle has one read     *)
(* cursor; a materialization is the loop of vbi_query_variants_basic, one  *)
(* seek and one decode per id, run here a step at a time.                  *)
(***************************************************************************)
\* the session each of the three materializations runs on: two on the
\* first session, one on a session of its own
QueryContexts == <<1, 1, 2>>

\* a handle after hts_open and bcf_hdr_read; by is the materialization that
\* moved the cursor last
OpenHandle == [cursor |-> HdrLen, by |-> 0]

\* a materialization of hits on session c, before its first seek
StartQuery(c, hits) ==
    [ctxid |-> c, hits |-> hits, k |-> 1, pc |-> "seek", rows |-> <<>>,
     crossed |-> FALSE]

\* where the loop goes after the row of hits[q.k]
NextPc(q) == IF q.k = Len(q.hits) THEN "done" ELSE "seek"

\* mutation of SeekStep: the seek leaves the cursor where it was
SeekStepInPlace(q, h, i) ==
    [q |-> [q EXCEPT !.pc = "decode"], h |-> [cursor |-> h.cursor, by |-> i]]

\* the seek of hits[q.k] on handle h: on failure the sentinel row is
\* emitted and the loop continues
SeekStep(q, h, i) ==
    LET offset == idx.offsets[q.hits[q.k] + 1]
    IN  IF SeekOk(offset)
        THEN [q |-> [q EXCEPT !.pc = "decode"],
              h |-> [cursor |-> offset, by |-> i]]
        ELSE [q |-> [q EXCEPT !.rows = Append(@, SentinelRow(FALSE)),
                              !.k = @ + 1, !.pc = NextPc(q)],
              h |-> h]

\* the decode of the record at the cursor of handle h
DecodeStep(q, h, i) ==
    LET rd  == bcf_read(src, h.cursor)
        row == IF rd.ret < 0 THEN SentinelRow(FALSE)
               ELSE DecodedRow(rd.rec, q.hits[q.k],
                               [alloc |-> FALSE, s |-> <<>>], FALSE)
    IN  [q |-> [q EXCEPT !.rows = Append(@, row), !.k = @ + 1,
                         !.pc = NextPc(q),
                         !.crossed = @ \/ h.by # i],
         h |-> [cursor |-> rd.tok, by |-> i]]

SourcesConcurrent == {s \in SourcesSession : s.recs # <<>>}

InitConcurrent ==
    /\ src \in SourcesConcurrent
    /\ bld = BuiltIndex(src)
    /\ vbi = BuiltIndexFile(src)
    /\ idx \in LoadOutcomes(vbi)
    /\ out = NoOut
    /\ ctx = [state |-> "handles",
              fp |-> [c \in {QueryContexts[i] : i \in 1..Len(QueryContexts)}
                        |-> OpenHandle]]
    /\ \E starts \in [1..Len(QueryContexts) -> 1..Len(src.recs)] :
          qs = [i \in 1..Len(QueryContexts) |->
                  StartQuery(QueryContexts[i],
                             IndexRangeHits(Len(src.recs), starts[i],
                                            Len(src.recs)))]

\* one materialization seeks
MaterializeSeek ==
    /\ \E i \in 1..Len(qs) :
          /\ qs[i].pc = "seek"
          /\ LET st == SeekStep(qs[i], ctx.fp[qs[i].ctxid], i)
             IN  /\ qs' = [qs EXCEPT ![i] = st.q]
                 /\ ctx' = [ctx EXCEPT !.fp[qs[i].ctxid] = st.h]
    /\ UNCHANGED <<src, bld, vbi, idx, out>>

\* one materialization decodes
MaterializeDecode ==
    /\ \E i \in 1..Len(qs) :
          /\ qs[i].pc = "decode"
          /\ LET st == DecodeStep(qs[i], ctx.fp[qs[i].ctxid], i)
             IN  /\ qs' = [qs EXCEPT ![i] = st.q]
                 /\ ctx' = [ctx EXCEPT !.fp[qs[i].ctxid] = st.h]
    /\ UNCHANGED <<src, bld, vbi, idx, out>>

NextConcurrent ==
    \/ MaterializeSeek
    \/ MaterializeDecode

SpecConcurrent == InitConcurrent /\ [][NextConcurrent]_vars

(***************************************************************************)
(* Read operations on a loaded index: the query engine's functions, the    *)
(* printer, extract-ranges and the batch materialization, called one after *)
(* another.                                                                *)
(***************************************************************************)
\* vbi_index_query_index_range: start and end are clamped as they come
vbi_index_query_index_range(index, start, end) ==
    LET s1 == IF start < 0 THEN 0 ELSE start
        e1 == IF end >= index.num_marker THEN index.num_marker - 1 ELSE end
    IN  IF e1 < s1 THEN <<>>
        ELSE [i \in 1..(e1 - s1 + 1) |-> s1 + i - 1]

\* vbi_index_offsets_for_indices
vbi_index_offsets_for_indices(index, indices) ==
    [k \in 1..Len(indices) |-> index.offsets[indices[k] + 1]]

\* vbi_index_chrom_name
vbi_index_chrom_name(index, idx_var) ==
    ChromNameAt(index.chrom_names, index.chrom_ids[idx_var + 1])

\* vbi_index_position
vbi_index_position(index, idx_var) == index.positions[idx_var + 1]

\* vbi_index_print: the lines after the num_marker line
vbi_index_print(index, n) ==
    LET max == Min(IF n > 0 THEN n ELSE index.num_marker, index.num_marker)
    IN  [i \in 1..max |->
            <<i, vbi_index_chrom_name(index, i - 1), index.positions[i],
              index.offsets[i]>>]

\* the rows of RC_VBI_extract_ranges
ExtractRanges(index, n) ==
    LET num_ranges == IF n <= 0 \/ n > index.num_marker THEN index.num_marker ELSE n
    IN  [i \in 1..num_ranges |->
            [chrom |-> vbi_index_chrom_name(index, i - 1),
             pos |-> ToInt32(index.positions[i]), index |-> i]]

\* mutation of IndexAfterRead: the operation adds the first record to the
\* Interval Index again
IndexAfterReinsert(index) ==
    IF index.num_marker = 0 THEN index
    ELSE [index EXCEPT !.cr = @ \cup
            {CrEntry(index.chrom_names, index.chrom_ids[1], index.positions[1],
                     index.num_marker)}]

\* the index after one of the read operations: none of them stores through
\* its index pointer, calls cr_add or calls cr_index
IndexAfterRead(index) == index

\* the operations called so far
Calls(o) == IF o.op = "none" THEN 0 ELSE o.calls

\* the result res of operation op on argument arg
Called(op, arg, res) ==
    [op |-> op, arg |-> arg, res |-> res, calls |-> Calls(out) + 1]

InitAccess ==
    /\ src \in SourcesSession
    /\ bld = BuiltIndex(src)
    /\ vbi = BuiltIndexFile(src)
    /\ idx \in LoadOutcomes(vbi)
    /\ out = NoOut
    /\ ctx = NoCtx
    /\ qs = NoQs

LinearRegionQuery ==
    /\ Calls(out) < MaxCalls
    /\ \E str \in QueryTokens :
          out' = Called("vbi_index_query_region", str,
                        vbi_index_query_region(idx, str))
    /\ idx' = IndexAfterRead(idx)
    /\ UNCHANGED <<src, bld, vbi, ctx, qs>>

QueryIndexRange ==
    /\ Calls(out) < MaxCalls
    /\ \E start \in (-1)..(MaxRecs + 1), end \in (-1)..(MaxRecs + 1) :
          out' = Called("vbi_index_query_index_range", <<start, end>>,
                        vbi_index_query_index_range(idx, start, end))
    /\ idx' = IndexAfterRead(idx)
    /\ UNCHANGED <<src, bld, vbi, ctx, qs>>

OffsetsForIndices ==
    /\ Calls(out) < MaxCalls
    /\ \E indices \in SeqsUpTo(0..(idx.num_marker - 1), 2) :
          out' = Called("vbi_index_offsets_for_indices", indices,
                        vbi_index_offsets_for_indices(idx, indices))
    /\ idx' = IndexAfterRead(idx)
    /\ UNCHANGED <<src, bld, vbi, ctx, qs>>

ChromNameLookup ==
    /\ Calls(out) < MaxCalls
    /\ \E i \in 0..(idx.num_marker - 1) :
          out' = Called("vbi_index_chrom_name", i, vbi_index_chrom_name(idx, i))
    /\ idx' = IndexAfterRead(idx)
    /\ UNCHANGED <<src, bld, vbi, ctx, qs>>

PositionLookup ==
    /\ Calls(out) < MaxCalls
    /\ \E i \in 0..(idx.num_marker - 1) :
          out' = Called("vbi_index_position", i, vbi_index_position(idx, i))
    /\ idx' = IndexAfterRead(idx)
    /\ UNCHANGED <<src, bld, vbi, ctx, qs>>

RC_VBI_print_index ==
    /\ Calls(out) < MaxCalls
    /\ \E n \in (-1)..(MaxRecs + 1) :
          out' = Called("vbi_index_print", n, vbi_index_print(idx, n))
    /\ idx' = IndexAfterRead(idx)
    /\ UNCHANGED <<src, bld, vbi, ctx, qs>>

RC_VBI_extract_ranges ==
    /\ Calls(out) < MaxCalls
    /\ \E n \in (-1)..(MaxRecs + 1) :
          out' = Called("extract_ranges", n, ExtractRanges(idx, n))
    /\ idx' = IndexAfterRead(idx)
    /\ UNCHANGED <<src, bld, vbi, ctx, qs>>

BatchMaterialize ==
    /\ Calls(out) < MaxCalls
    /\ \E start \in 1..(MaxRecs + 1), end \in 1..(MaxRecs + 1), inc_info \in BOOLEAN :
          out' = Called("vbi_query_variants_basic", <<start, end, inc_info>>,
                        QueryRows(IndexRangeHits(idx.num_marker, start, end),
                                  inc_info))
    /\ idx' = IndexAfterRead(idx)
    /\ UNCHANGED <<src, bld, vbi, ctx, qs>>

NextAccess ==
    \/ LinearRegionQuery
    \/ QueryIndexRange
    \/ OffsetsForIndices
    \/ ChromNameLookup
    \/ PositionLookup
    \/ RC_VBI_print_index
    \/ RC_VBI_extract_ranges
    \/ BatchMaterialize

SpecAccess == InitAccess /\ [][NextAccess]_vars

(***************************************************************************)
(* The materialized table: its columns, and the CSQ and ANN cells, for a   *)
(* source whose header may declare the two annotation fields.              *)
(***************************************************************************)
\* R_NilValue, the placeholder of a list cell
R_NilValue == [kind |-> "NULL"]

\* how a header declares an annotation field: not at all, with a plain
\* description, or with a description naming pipe-delimited sub-fields
HeaderDecls ==
    {[declared |-> FALSE, fields |-> <<>>],
     [declared |-> TRUE, fields |-> <<>>],
     [declared |-> TRUE, fields |-> <<"X", "Y">>]}

\* records carrying the annotation fields (a value of two sub-fields) or not
AnnRecs ==
    {[chrom |-> <<"1">>, pos |-> 0, info |-> <<>>, csq |-> c, ann |-> a] :
        c \in {<<>>, <<"a", "|", "b">>}, a \in {<<>>, <<"c", "|", "d">>}}

\* mutation of WithAnnotation: the column is there whenever the header
\* declares the field
WithAnnotationAlways(decl, inc_info) == decl.declared

\* with_csq / with_ann: bcf_hdr_get_hrec is asked only if info is requested
WithAnnotation(decl, inc_info) == inc_info /\ decl.declared

\* the column names of the table of a non-empty id list
ColumnNames(file, inc_info, inc_format, inc_genotypes) ==
    <<"chrom", "pos", "id", "ref", "alt", "qual", "filter", "n_allele", "index">>
    \o (IF WithAnnotation(file.csq_hdr, inc_info) THEN <<"CSQ">> ELSE <<>>)
    \o (IF WithAnnotation(file.ann_hdr, inc_info) THEN <<"ANN">> ELSE <<>>)
    \o (IF inc_info THEN <<"INFO">> ELSE <<>>)
    \o (IF inc_format THEN <<"FORMAT_IDS">> ELSE <<>>)
    \o (IF inc_genotypes THEN <<"GT">> ELSE <<>>)

\* the cell written into an annotation column for a decoded record rec
\* carrying value, under declaration decl
AnnotationCell(decl, value) == R_NilValue

\* the annotation cells of row k: R_NilValue on a failed fetch as well
AnnotationRow(file, index, idx_var, inc_info) ==
    LET rd == bcf_read(file, index.offsets[idx_var + 1])
        failed == FetchFails(file, index, idx_var)
    IN  [failed |-> failed,
         rec |-> rd.rec,
         CSQ |-> IF ~WithAnnotation(file.csq_hdr, inc_info) THEN [kind |-> "none"]
                 ELSE IF failed THEN R_NilValue
                 ELSE AnnotationCell(file.csq_hdr, rd.rec.csq),
         ANN |-> IF ~WithAnnotation(file.ann_hdr, inc_info) THEN [kind |-> "none"]
                 ELSE IF failed THEN R_NilValue
                 ELSE AnnotationCell(file.ann_hdr, rd.rec.ann)]

SourcesColumns ==
    {s \in [recs : SeqsUpTo(AnnRecs, MaxRecs), nsamples : {0},
            csq_hdr : HeaderDecls, ann_hdr : HeaderDecls] :
        \A k \in 1..Len(s.recs) :
            /\ s.recs[k].csq # <<>> => s.csq_hdr.declared
            /\ s.recs[k].ann # <<>> => s.ann_hdr.declared}

InitColumns ==
    /\ src \in SourcesColumns
    /\ bld = BuiltIndex(src)
    /\ vbi = BuiltIndexFile(src)
    /\ idx = NoIdx
    /\ out = NoOut
    /\ ctx = NoCtx
    /\ qs = NoQs

\* RC_VBI_query_by_indices_ctx with its three flags, on a source with a
\* header: the table's column names and annotation cells
QueryByIndicesTable ==
    /\ idx.state = "loaded"
    /\ out = NoOut
    /\ \E start_idx \in 1..MaxRecs, end_idx \in 1..MaxRecs,
          inc_info \in BOOLEAN, inc_format \in BOOLEAN, inc_genotypes \in BOOLEAN :
          LET hits == IndexRangeHits(idx.num_marker, start_idx, end_idx)
          IN  out' = [op |-> "table", arg |-> <<start_idx, end_idx>>,
                      inc_info |-> inc_info, inc_format |-> inc_format,
                      inc_genotypes |-> inc_genotypes, hits |-> hits,
                      names |-> IF hits = <<>> THEN <<>>
                                ELSE ColumnNames(src, inc_info, inc_format,
                                                 inc_genotypes),
                      rows |-> QueryRows(hits, inc_info),
                      cells |-> [k \in 1..Len(hits) |->
                                    AnnotationRow(src, idx, hits[k], inc_info)]]
    /\ UNCHANGED <<src, bld, vbi, idx, ctx, qs>>

NextColumns ==
    \/ CorruptOffset
    \/ VbiIndexLoad
    \/ QueryByIndicesTable

SpecColumns == InitColumns /\ [][NextColumns]_vars

(***************************************************************************)
(* Seek tokens of sources that are, or are not, block-compressed.          *)
(*                                                                         *)
(* A stream token stands for the position of a record in the source: the   *)
(* block virtual offset in a block-compressed source, the byte offset in   *)
(* any other.                                                              *)
(***************************************************************************)
\* what do_index asks the position with: bgzf_tell on fp->fp.bgzf, without
\* looking at the compression of the source
TellKind(file) == "bgzf"

\* what the materializer seeks with
SeekKind(file) == IF file.compressed THEN "bgzf" ELSE "hfile"

\* the values bgzf_tell may give at stream token fpos: in a source that is
\* not block-compressed fp->fp.bgzf is no BGZF, and the value read through
\* it is indeterminate
TellOutcomes(file, fpos) ==
    IF file.compressed THEN {fpos}
    ELSE {-1, 0, fpos, EofTok(file)}

\* the offset arrays the builder may leave for file
BuiltOffsets(file) ==
    {offs \in [1..Len(file.recs) -> UNION {TellOutcomes(file, HdrLen + i - 1) :
                                             i \in 1..Len(file.recs)}] :
        \A i \in 1..Len(file.recs) : offs[i] \in TellOutcomes(file, HdrLen + i - 1)}

\* seek_ok: bgzf_seek gives 0 on success; hseek gives the new offset, which
\* is 0 only for offset 0
SeekSucceeds(file, offset) ==
    IF file.compressed THEN SeekOk(offset) ELSE offset = 0

\* the record fetched through offset, or the failure the row is filled for
FetchRecord(file, offset) ==
    IF ~SeekSucceeds(file, offset) THEN [ok |-> FALSE, rec |-> Rec(<<>>, 0, <<>>)]
    ELSE [ok |-> bcf_read(file, offset).ret >= 0, rec |-> bcf_read(file, offset).rec]

SourcesSeek ==
    {[recs |-> s.recs, nsamples |-> s.nsamples, compressed |-> c] :
        s \in SourcesSession, c \in BOOLEAN}

InitSeek ==
    /\ src \in SourcesSeek
    /\ bld = NoBld
    /\ vbi = NoVbi
    /\ idx = NoIdx
    /\ out = NoOut
    /\ ctx = NoCtx
    /\ qs = NoQs

\* do_index of the library on a source of either kind
DoIndexAnySource ==
    /\ bld.pc = "idle"
    /\ \E offs \in BuiltOffsets(src) :
          LET b == [BuiltIndex(src) EXCEPT !.offsets = offs]
          IN  /\ bld' = b
              /\ vbi' = WrittenFile(b, "none", 0)
    /\ UNCHANGED <<src, idx, out, ctx, qs>>

\* the seek and decode of the materializer for every record of the index
FetchRecords ==
    /\ idx.state = "loaded"
    /\ out = NoOut
    /\ out' = [op |-> "fetch", tell |-> TellKind(src), seek |-> SeekKind(src),
               got |-> [i \in 1..idx.num_marker |->
                          FetchRecord(src, idx.offsets[i])]]
    /\ UNCHANGED <<src, bld, vbi, idx, ctx, qs>>

NextSeek ==
    \/ DoIndexAnySource
    \/ VbiIndexLoad
    \/ FetchRecords

SpecSeek == InitSeek /\ [][NextSeek]_vars

(***************************************************************************)
(* The INFO and GT cells of a decoded record.                              *)
(***************************************************************************)
\* bcf_gt_missing
bcf_gt_missing == 0

\* bcf_int32_vector_end: INT32_MIN + 1
bcf_int32_vector_end == 1 - Pow2(Int32Bits - 1)

\* bcf_gt_allele(g): (g >> 1) - 1
bcf_gt_allele(g) == (g \div 2) - 1

\* "%d" and kputw: the decimal text of a signed integer
IntText(n) == IF n < 0 THEN <<"-">> \o DecimalText(0 - n) ELSE DecimalText(n)

\* mkChar(ktmp.s), or NA_STRING while nothing was ever put into the buffer
CellOf(buf) == IF buf.s THEN buf.text ELSE NA_STRING

\* kputc, kputs, ksprintf: append to the buffer, which then holds memory
KPut(buf, text) == [s |-> TRUE, text |-> buf.text \o text]

\* kstring_t ktmp = {0,0,0}
EmptyBuf == [s |-> FALSE, text |-> <<>>]

\* one turn of the ploidy loop for value g at 0-based p (the break leaves
\* the later turns out: see GtSample)
GtAllele(buf, g, p) ==
    LET b == IF p > 0 THEN KPut(buf, <<"/">>) ELSE buf
    IN  IF g = bcf_int32_vector_end THEN b
        ELSE IF g = bcf_gt_missing THEN KPut(b, <<".">>)
        ELSE KPut(b, IntText(bcf_gt_allele(g)))

\* the ploidy loop of sample s (0-based) from turn p
RECURSIVE GtSample(_, _, _, _, _)
GtSample(buf, gt, s, ploidy, p) ==
    IF p >= ploidy THEN buf
    ELSE IF gt[s * ploidy + p + 1] = bcf_int32_vector_end
         THEN GtAllele(buf, gt[s * ploidy + p + 1], p)
         ELSE GtSample(GtAllele(buf, gt[s * ploidy + p + 1], p), gt, s, ploidy, p + 1)

\* the sample loop from sample s (0-based)
RECURSIVE GtSamples(_, _, _, _, _)
GtSamples(buf, gt, ns, ploidy, s) ==
    IF s >= ns THEN buf
    ELSE GtSamples(GtSample(IF s > 0 THEN KPut(buf, <<";">>) ELSE buf,
                            gt, s, ploidy, 0),
                   gt, ns, ploidy, s + 1)

\* the GT cell for the genotype array gt of ns samples
GtCell(gt, ns) ==
    IF Len(gt) > 0 /\ ns > 0
    THEN CellOf(GtSamples(EmptyBuf, gt, ns, Len(gt) \div ns, 0))
    ELSE CellOf(EmptyBuf)

\* comma-joined decimal values from the k-th (1-based)
RECURSIVE JoinValues(_, _)
JoinValues(vals, k) ==
    IF k > Len(vals) THEN <<>>
    ELSE (IF k > 1 THEN <<",">> ELSE <<>>) \o IntText(vals[k]) \o JoinValues(vals, k + 1)

\* what follows the key of an info field
InfoValue(inf) ==
    IF inf.len > 0 /\ inf.type # "NULL"
    THEN <<"=">> \o (IF inf.type \in {"INT32", "FLOAT"} THEN JoinValues(inf.vals, 1)
                     ELSE IF inf.type = "CHAR" THEN inf.text
                     ELSE <<>>)
    ELSE <<>>

\* the info loop from field j (1-based); a field whose key bcf_hdr_int2id
\* does not resolve is skipped
RECURSIVE InfoFieldsFrom(_, _, _)
InfoFieldsFrom(buf, info, j) ==
    IF j > Len(info) THEN buf
    ELSE IF ~info[j].resolved THEN InfoFieldsFrom(buf, info, j + 1)
    ELSE InfoFieldsFrom(
             KPut(IF j > 1 THEN KPut(buf, <<";">>) ELSE buf,
                  <<info[j].key>> \o InfoValue(info[j])),
             info, j + 1)

\* the INFO cell of a record with the info fields info
InfoCell(info) == CellOf(InfoFieldsFrom(EmptyBuf, info, 1))

\* values of a genotype array: vector end, missing, phased missing, allele 0,
\* allele 1
GtValues == {bcf_int32_vector_end, bcf_gt_missing, bcf_gt_missing + 1, 2, 4}

\* genotype arrays of ns samples: a sample has a first value, and only
\* vector ends follow a vector end
GtArrays(ns, ploidy) ==
    {gt \in [1..(ns * ploidy) -> GtValues] :
        \A s \in 0..(ns - 1) :
            /\ gt[s * ploidy + 1] \notin {bcf_int32_vector_end, bcf_gt_missing + 1}
            /\ \A p \in 1..(ploidy - 1) :
                  gt[s * ploidy + p] = bcf_int32_vector_end
                      => gt[s * ploidy + p + 1] = bcf_int32_vector_end}

\* info fields (bcf_info_t): a flag, len numbers of one storage type in
\* vals, or len characters in text
InfoFields ==
    {[key |-> k, resolved |-> r, type |-> "NULL", len |-> 0, vals |-> <<>>,
      text |-> <<>>] : k \in {"A", "B"}, r \in BOOLEAN}
    \cup {[key |-> k, resolved |-> TRUE, type |-> ty, len |-> Len(v), vals |-> v,
           text |-> <<>>] :
            k \in {"A", "B"}, ty \in {"INT8", "INT16", "INT32", "FLOAT"},
            v \in {<<7>>, <<7, 12>>}}
    \cup {[key |-> k, resolved |-> TRUE, type |-> "CHAR", len |-> 2, vals |-> <<>>,
           text |-> <<"x", "y">>] : k \in {"A", "B"}}

SourcesCells ==
    {[kind |-> "gt", ns |-> ns, gt |-> gt, info |-> <<>>] :
        ns \in 1..MaxSamples + 1, gt \in GtArrays(1, 2) \cup GtArrays(2, 2)}
    \cup {[kind |-> "info", ns |-> 0, gt |-> <<>>, info |-> i] :
            i \in SeqsUpTo(InfoFields, 2)}

InitCells ==
    /\ src \in {s \in SourcesCells : s.kind = "gt" => Len(s.gt) = 2 * s.ns}
    /\ bld = NoBld
    /\ vbi = NoVbi
    /\ idx = NoIdx
    /\ out = NoOut
    /\ ctx = NoCtx
    /\ qs = NoQs

\* the gt_cols branch for a decoded record
FormatGtCell ==
    /\ src.kind = "gt"
    /\ out = NoOut
    /\ out' = [op |-> "GT", cell |-> GtCell(src.gt, src.ns)]
    /\ UNCHANGED <<src, bld, vbi, idx, ctx, qs>>

\* the info_cols branch for a decoded record
FormatInfoCell ==
    /\ src.kind = "info"
    /\ out = NoOut
    /\ out' = [op |-> "INFO", cell |-> InfoCell(src.info)]
    /\ UNCHANGED <<src, bld, vbi, idx, ctx, qs>>

NextCells ==
    \/ FormatGtCell
    \/ FormatInfoCell

SpecCells == InitCells /\ [][NextCells]_vars

(***************************************************************************)
(* RC_bcftools_pipeline: n child commands joined by n - 1 pipes.           *)
(*                                                                         *)
(* Commands are numbered 1..n and pipe j joins command j to command j + 1; *)
(* <<j, "r">> and <<j, "w">> are the two ends of pipe j.  src is the call, *)
(* ctx the parent, qs the children.                                        *)
(***************************************************************************)
\* most commands in a pipeline
MaxCommands == 3

\* pipes[0..n-2][0..1]
PipeEnds(n) == {<<j, e>> : j \in 1..(n - 1), e \in {"r", "w"}}

\* what fd_stderr is opened on
StderrTarget(capture_stderr) ==
    IF capture_stderr THEN "stderr_file" ELSE "/dev/null"

\* standard error of a child after its setup: dup2(fd_stderr, STDERR_FILENO)
\* runs only under do_capture_stderr
ChildStderr(capture_stderr, fd_stderr) ==
    IF capture_stderr THEN fd_stderr ELSE "inherited"

\* the pipe ends child i keeps after its closing loop
ChildKeeps(i, n) == PipeEnds(n) \cap {<<i - 1, "r">>, <<i, "w">>}

\* mutation of ParentKeeps: the parent goes on to wait with its pipe ends open
ParentKeepsAll(fds) == fds

\* the pipe ends the parent holds after its closing loop
ParentKeeps(fds) == {}

\* statuses[i] = WIFEXITED(status) ? WEXITSTATUS(status) : -1
StatusOf(c) == IF c.exited THEN c.code ELSE -1

Unborn == [state |-> "unborn", fds |-> {}, stderr |-> "none", exited |-> FALSE,
           code |-> 0]

\* the processes that hold pipe end e open
Holders(e) ==
    (IF e \in ctx.fds /\ ctx.pc \notin {"done", "error"} THEN {0} ELSE {})
    \cup {i \in 1..Len(qs) : qs[i].state \in {"setup", "running"} /\ e \in qs[i].fds}

InitPipe ==
    /\ src \in {[n |-> n, capture_stderr |-> c] : n \in 1..MaxCommands, c \in BOOLEAN}
    /\ bld = NoBld
    /\ vbi = NoVbi
    /\ idx = NoIdx
    /\ out = NoOut
    /\ ctx = [pc |-> "start", i |-> 1, fds |-> {}, fd_stderr |-> "none",
              statuses |-> <<>>]
    /\ qs = <<>>

\* the opens of fd_stderr and fd_stdout, and the pipe() loop
PipelineStart ==
    /\ ctx.pc = "start"
    /\ ctx' = [ctx EXCEPT !.pc = "fork", !.fds = PipeEnds(src.n),
                          !.fd_stderr = StderrTarget(src.capture_stderr)]
    /\ qs' = [i \in 1..src.n |-> Unborn]
    /\ UNCHANGED <<src, bld, vbi, idx, out>>

\* fork() of command ctx.i: the child starts with the parent's descriptors
Fork ==
    /\ ctx.pc = "fork"
    /\ ctx.i <= src.n
    /\ qs' = [qs EXCEPT ![ctx.i] = [@ EXCEPT !.state = "setup", !.fds = ctx.fds,
                                              !.stderr = "inherited"]]
    /\ ctx' = [ctx EXCEPT !.i = @ + 1]
    /\ UNCHANGED <<src, bld, vbi, idx, out>>

\* fork() < 0: the pipes are closed, the children made so far get SIGTERM,
\* and the call raises
ForkFails ==
    /\ ctx.pc = "fork"
    /\ ctx.i <= src.n
    /\ qs' = [i \in 1..src.n |->
                 IF qs[i].state \in {"setup", "running"}
                 THEN [qs[i] EXCEPT !.state = "exited", !.fds = {}, !.exited = FALSE]
                 ELSE qs[i]]
    /\ ctx' = [ctx EXCEPT !.pc = "error", !.fds = {}]
    /\ out' = [op |-> "pipeline", error |-> TRUE, statuses |-> <<>>]
    /\ UNCHANGED <<src, bld, vbi, idx>>

\* the child side of fork() up to execv: the dup2 calls and the closing
\* loop; a failed dup2 or execv ends the child with _exit(1)
ChildSetup(i) ==
    /\ i \in 1..Len(qs)
    /\ qs[i].state = "setup"
    /\ \E ok \in BOOLEAN :
          qs' = [qs EXCEPT ![i] =
                    IF ok
                    THEN [@ EXCEPT !.state = "running",
                                   !.fds = ChildKeeps(i, src.n),
                                   !.stderr = ChildStderr(src.capture_stderr,
                                                          ctx.fd_stderr)]
                    ELSE [@ EXCEPT !.state = "exited", !.fds = {},
                                   !.exited = TRUE, !.code = 1]]
    /\ UNCHANGED <<src, bld, vbi, idx, out, ctx>>

\* the parent's closing loop over the pipes, after the last fork
ParentClose ==
    /\ ctx.pc = "fork"
    /\ ctx.i > src.n
    /\ ctx' = [ctx EXCEPT !.pc = "wait", !.i = 1, !.fds = ParentKeeps(@)]
    /\ UNCHANGED <<src, bld, vbi, idx, out, qs>>

\* a command ends by itself: the first has no pipe to read, any other reads
\* end-of-input once no process holds the write end of its input pipe, and
\* one that writes gets EPIPE once no process holds the read end of its
\* output pipe
ChildExit(i) ==
    /\ i \in 1..Len(qs)
    /\ qs[i].state = "running"
    /\ \/ i = 1
       \/ Holders(<<i - 1, "w">>) = {}
       \/ i < src.n /\ Holders(<<i, "r">>) = {}
    /\ \E code \in {0, 1} :
          qs' = [qs EXCEPT ![i] = [@ EXCEPT !.state = "exited", !.fds = {},
                                            !.exited = TRUE, !.code = code]]
    /\ UNCHANGED <<src, bld, vbi, idx, out, ctx>>

\* a command is ended by a signal
ChildKilled(i) ==
    /\ i \in 1..Len(qs)
    /\ qs[i].state = "running"
    /\ qs' = [qs EXCEPT ![i] = [@ EXCEPT !.state = "exited", !.fds = {},
                                         !.exited = FALSE]]
    /\ UNCHANGED <<src, bld, vbi, idx, out, ctx>>

\* waitpid(pids[i]) in command order; after the last, the result is built
WaitChild ==
    /\ ctx.pc = "wait"
    /\ ctx.i <= src.n
    /\ qs[ctx.i].state = "exited"
    /\ qs' = [qs EXCEPT ![ctx.i] = [@ EXCEPT !.state = "reaped"]]
    /\ LET st == Append(ctx.statuses, StatusOf(qs[ctx.i]))
       IN  /\ ctx' = [ctx EXCEPT !.i = @ + 1, !.statuses = st,
                                 !.pc = IF ctx.i = src.n THEN "done" ELSE "wait"]
           /\ out' = IF ctx.i = src.n
                     THEN [op |-> "pipeline", error |-> FALSE, statuses |-> st]
                     ELSE out
    /\ UNCHANGED <<src, bld, vbi, idx>>

NextPipe ==
    \/ PipelineStart
    \/ Fork
    \/ ForkFails
    \/ ParentClose
    \/ WaitChild
    \/ \E i \in 1..MaxCommands : ChildSetup(i)
    \/ \E i \in 1..MaxCommands : ChildExit(i)
    \/ \E i \in 1..MaxCommands : ChildKilled(i)

SpecPipe == InitPipe /\ [][NextPipe]_vars

\* the parent and every child keep running; a child that may end by itself
\* does so
SpecPipeFair ==
    /\ SpecPipe
    /\ WF_vars(PipelineStart \/ Fork \/ ParentClose \/ WaitChild)
    /\ \A i \in 1..MaxCommands : WF_vars(ChildSetup(i)) /\ WF_vars(ChildExit(i))

(***************************************************************************)
(* Memory-mapped file backend (hFILE_mmap).                                *)
(*                                                                         *)
(* ctx is the hFILE_mmap: length and pos, both size_t.  size_t and off_t   *)
(* have the same width, as on the LP64 platforms the package builds on;    *)
(* the width is scaled down to OffBits.                                    *)
(***************************************************************************)
\* width of off_t and of size_t in bits, scaled down from 64
OffBits == 4

\* longest mapped file
MaxMapLen == 3

\* conversion to size_t: the value modulo 2^OffBits
ToSize(x) == x % Pow2(OffBits)

\* conversion to off_t or ssize_t: two's complement of the same width
ToOff(x) ==
    LET m == x % Pow2(OffBits)
    IN  IF m >= Pow2(OffBits - 1) THEN m - Pow2(OffBits) ELSE m

\* the offsets a caller may pass: every off_t
Offsets == (0 - Pow2(OffBits - 1))..(Pow2(OffBits - 1) - 1)

\* mmap_read: the count is cut to length - pos, the cursor moves by it, and
\* it is returned
mmap_read(fp, nbytes) ==
    LET avail == ToSize(fp.length - fp.pos)
        n == IF nbytes > avail THEN avail ELSE nbytes
    IN  [fp |-> [fp EXCEPT !.pos = ToSize(fp.pos + n)], ret |-> ToOff(n)]

\* mmap_write: as mmap_read, the bytes going the other way
mmap_write(fp, nbytes) ==
    LET avail == ToSize(fp.length - fp.pos)
        n == IF nbytes > avail THEN avail ELSE nbytes
    IN  [fp |-> [fp EXCEPT !.pos = ToSize(fp.pos + n)], ret |-> ToOff(n)]

\* mutation of SeekRejects: only a target beyond the end is refused
SeekRejectsForwardOnly(fp, offset, origin) ==
    offset >= 0 /\ offset > ToSize(fp.length - origin)

\* the range test of mmap_seek; -offset of the least off_t keeps its bit
\* pattern, 2^(OffBits-1) as a size_t
SeekRejects(fp, offset, origin) ==
    LET absoffset == IF offset >= 0 THEN offset ELSE ToSize(0 - offset)
    IN  \/ offset < 0 /\ absoffset > origin
        \/ offset >= 0 /\ absoffset > ToSize(fp.length - origin)

\* mmap_seek
mmap_seek(fp, offset, whence) ==
    IF whence \notin {"SEEK_SET", "SEEK_CUR", "SEEK_END"}
    THEN [fp |-> fp, ret |-> -1]
    ELSE LET origin == CASE whence = "SEEK_SET" -> 0
                         [] whence = "SEEK_CUR" -> fp.pos
                         [] OTHER -> fp.length
         IN  IF SeekRejects(fp, offset, origin)
             THEN [fp |-> fp, ret |-> -1]
             ELSE [fp |-> [fp EXCEPT !.pos = ToSize(origin + offset)],
                   ret |-> ToOff(ToSize(origin + offset))]

\* hopen_mmap of a file of 1..MaxMapLen bytes (an empty file cannot be
\* mapped): pos = 0
InitMmap ==
    /\ src = NoSrc
    /\ bld = NoBld
    /\ vbi = NoVbi
    /\ idx = NoIdx
    /\ out = NoOut
    /\ ctx \in {[state |-> "mmap", length |-> n, pos |-> 0] : n \in 1..MaxMapLen}
    /\ qs = NoQs

MmapRead ==
    /\ \E nbytes \in 0..(MaxMapLen + 1) :
          /\ ctx' = mmap_read(ctx, nbytes).fp
          /\ out' = [op |-> "read", before |-> ctx.pos, arg |-> nbytes,
                     whence |-> "none", ret |-> mmap_read(ctx, nbytes).ret]
    /\ UNCHANGED <<src, bld, vbi, idx, qs>>

MmapWrite ==
    /\ \E nbytes \in 0..(MaxMapLen + 1) :
          /\ ctx' = mmap_write(ctx, nbytes).fp
          /\ out' = [op |-> "write", before |-> ctx.pos, arg |-> nbytes,
                     whence |-> "none", ret |-> mmap_write(ctx, nbytes).ret]
    /\ UNCHANGED <<src, bld, vbi, idx, qs>>

MmapSeek ==
    /\ \E offset \in Offsets,
          whence \in {"SEEK_SET", "SEEK_CUR", "SEEK_END", "other"} :
          /\ ctx' = mmap_seek(ctx, offset, whence).fp
          /\ out' = [op |-> "seek", before |-> ctx.pos, arg |-> offset,
                     whence |-> whence, ret |-> mmap_seek(ctx, offset, whence).ret]
    /\ UNCHANGED <<src, bld, vbi, idx, qs>>

NextMmap ==
    \/ MmapRead
    \/ MmapWrite
    \/ MmapSeek

SpecMmap == InitMmap /\ [][NextMmap]_vars

(***************************************************************************)
(* C10: parse_regions yields one Region per token, in token order; a token *)
(* without a colon is the whole chromosome (chromosome = token, start = 0, *)
(* end = INT64_MAX, not a point); a token with a colon and no dash in the  *)
(* coordinate part is a point at the parsed integer, with the text before  *)
(* the colon as chromosome; with a dash, start is the integer parsed from  *)
(* the left side of the dash and end the integer parsed from its right.    *)
(***************************************************************************)
TokenRegionAsClaimed(tok, reg) ==
    LET colon == StrChr(tok, ":")
        coord == SubSeq(tok, colon + 1, Len(tok))
        dash  == StrChr(coord, "-")
        left  == SubSeq(coord, 1, dash - 1)
        right == SubSeq(coord, dash + 1, Len(coord))
    IN  IF colon = 0
        THEN /\ reg.chrom = tok
             /\ reg.start = 0
             /\ reg.end = INT64_MAX
             /\ reg.is_point = FALSE
        ELSE IF dash = 0
        THEN /\ reg.chrom = SubSeq(tok, 1, colon - 1)
             /\ reg.start = Atoll(coord)
             /\ reg.end = Atoll(coord)
             /\ reg.is_point = TRUE
        ELSE /\ reg.start = Atoll(left)
             /\ reg.end = Atoll(right)

C10_OneRegionPerToken ==
    out.op = "parse" =>
        LET toks == StrTok(out.str, <<>>, <<>>)
        IN  /\ Len(out.regions) = Len(toks)
            /\ \A k \in 1..Len(toks) : TokenRegionAsClaimed(toks[k], out.regions[k])

(***************************************************************************)
(* C1: for an Index of N >= 0 records and any integers start and end, the  *)
(* index-range query (on the session, or reopening the file) materializes  *)
(* exactly the 1-based ids max(start,1)..min(end,N), one row per id in     *)
(* ascending order, and gives the empty result, with no error, whenever    *)
(* min(end,N) < max(start,1).                                              *)
(***************************************************************************)
C1_IndexRangeIds ==
    out.op \in {"by_indices_ctx", "by_indices"} =>
        LET lo == Max(out.arg[1], 1)
            hi == Min(out.arg[2], idx.num_marker)
        IN  IF hi < lo
            THEN out.hits = <<>> /\ out.rows = <<>>
            ELSE /\ out.hits = [k \in 1..(hi - lo + 1) |-> lo + k - 2]
                 /\ Len(out.rows) = hi - lo + 1
                 /\ \A k \in 1..(hi - lo + 1) :
                       out.rows[k].index \in {lo + k - 1, NA_INTEGER}

\* a range that starts below 1 and ends beyond N has been queried on an
\* index of two or more records: both ends were clamped
C1_Witness ==
    /\ out.op = "by_indices_ctx"
    /\ out.arg[1] < 1 /\ out.arg[2] > idx.num_marker
    /\ idx.num_marker >= 2
    /\ Len(out.rows) = idx.num_marker

(***************************************************************************)
(* C2: a batch materialization over n >= 1 ids returns n rows in the order *)
(* of the ids; row k is all sentinels iff the seek or the decode of the    *)
(* k-th id failed; every other row is populated from its own record alone, *)
(* whatever failed, or was read, before it.                                *)
(***************************************************************************)
\* the row of record idx_var decoded on its own
RowAlone(idx_var, inc_info) ==
    vbi_query_variants_basic(src, idx, <<idx_var>>, inc_info)[1]

C2_RowsFromOwnRecord ==
    (out.op \in {"by_indices_ctx", "by_indices", "query_region",
                 "query_region_cgranges"} /\ out.hits # <<>>) =>
        /\ Len(out.rows) = Len(out.hits)
        /\ \A k \in 1..Len(out.hits) :
              /\ out.rows[k] = SentinelRow(out.inc_info)
                    <=> FetchFails(src, idx, out.hits[k])
              /\ out.rows[k] = RowAlone(out.hits[k], out.inc_info)

(***************************************************************************)
(* C3: for any region list, with any 64-bit coordinates, the tree query,   *)
(* the linear query and the tool's query each return the set of records i  *)
(* whose chromosome is some region's and whose position lies within that   *)
(* region's inclusive bounds.                                              *)
(***************************************************************************)
\* the records of the source file that some region holds, by a scan of it
BruteForceHits(file, regions) ==
    {i \in 0..(Len(file.recs) - 1) :
        \E r \in 1..Len(regions) :
            /\ file.recs[i + 1].chrom = regions[r].chrom
            /\ regions[r].start <= file.recs[i + 1].pos + 1
            /\ file.recs[i + 1].pos + 1 <= regions[r].end}

C3_TreeLinearBruteAgree ==
    out.op \in {"query_region", "query_region_cgranges", "do_query"} =>
        {out.hits[k] : k \in 1..Len(out.hits)} =
            BruteForceHits(src, parse_regions(out.arg))

(***************************************************************************)
(* C4: the linear region query returns ids in strictly ascending order; a  *)
(* record is among them exactly when some parsed region matches it, once   *)
(* even when several do; the hits never outnumber the records.             *)
(***************************************************************************)
\* whether some region of the list holds record i (0-based) of the index
SomeRegionHolds(regions, i) ==
    \E r \in 1..Len(regions) :
        /\ idx.chrom_names[idx.chrom_ids[i + 1] + 1] = regions[r].chrom
        /\ regions[r].start <= idx.positions[i + 1]
        /\ idx.positions[i + 1] <= regions[r].end

C4_LinearAscendingOnce ==
    out.op = "query_region" =>
        LET regions == parse_regions(out.arg)
        IN  /\ \A k \in 1..(Len(out.hits) - 1) : out.hits[k] < out.hits[k + 1]
            /\ \A i \in 0..(idx.num_marker - 1) :
                  SomeRegionHolds(regions, i)
                     <=> \E k \in 1..Len(out.hits) : out.hits[k] = i
            /\ \A k \in 1..Len(out.hits) :
                  out.hits[k] >= 0 /\ out.hits[k] < idx.num_marker
            /\ Len(out.hits) <= idx.num_marker

\* a linear query in which two regions of the list hold the same record,
\* and which returned two or more hits
C4_Witness ==
    /\ out.op = "query_region"
    /\ Len(out.hits) >= 2
    /\ LET regions == parse_regions(out.arg)
       IN  \E i \in 0..(idx.num_marker - 1), r \in 1..Len(regions),
              q \in 1..Len(regions) :
              /\ r # q
              /\ RegionMatches(regions[r], idx.chrom_names[idx.chrom_ids[i + 1] + 1],
                               idx.positions[i + 1])
              /\ RegionMatches(regions[q], idx.chrom_names[idx.chrom_ids[i + 1] + 1],
                               idx.positions[i + 1])

(***************************************************************************)
(* C11: a region that cannot match (start > end, a chromosome absent from  *)
(* the chromosome table, or bounds beyond every stored position) adds no   *)
(* record id to the linear region query and raises no error; the records   *)
(* returned are those the other regions of the list hold, and a list of    *)
(* such regions alone gives the empty result.                              *)
(***************************************************************************)
\* whether region r can match no record of the loaded index
CannotMatch(r) ==
    \/ r.start > r.end
    \/ \A c \in 1..Len(idx.chrom_names) : idx.chrom_names[c] # r.chrom
    \/ \A i \in 1..idx.num_marker : idx.positions[i] < r.start
    \/ \A i \in 1..idx.num_marker : idx.positions[i] > r.end

C11_DeadRegionsAddNothing ==
    out.op = "query_region" =>
        LET regions == parse_regions(out.arg)
            live == {r \in 1..Len(regions) : ~CannotMatch(regions[r])}
        IN  /\ {out.hits[k] : k \in 1..Len(out.hits)} =
                  {i \in 0..(idx.num_marker - 1) :
                      \E r \in live :
                          /\ idx.chrom_names[idx.chrom_ids[i + 1] + 1] = regions[r].chrom
                          /\ regions[r].start <= idx.positions[i + 1]
                          /\ idx.positions[i + 1] <= regions[r].end}
            /\ live = {} => (out.hits = <<>> /\ out.rows = <<>>)

\* a linear query of two regions, the first with start > end on a chromosome
\* and over positions the index holds, the second holding a record
C11_Witness ==
    /\ out.op = "query_region"
    /\ out.hits # <<>>
    /\ LET regions == parse_regions(out.arg)
       IN  /\ Len(regions) = 2
           /\ regions[1].start > regions[1].end
           /\ \E i \in 1..idx.num_marker :
                 /\ idx.chrom_names[idx.chrom_ids[i] + 1] = regions[1].chrom
                 /\ idx.positions[i] <= regions[1].end
           /\ ~CannotMatch(regions[2])

(***************************************************************************)
(* C12: closing a session context releases its four owned resources once   *)
(* each, in the reverse of the order RC_VBI_vcf_load acquired them: load    *)
(* takes Index, source handle, header, decode buffer; close gives back     *)
(* decode buffer, header, handle, Index.                                   *)
(***************************************************************************)
\* the names in events of the given kind that are among the four resources
OwnedEvents(events, kind) ==
    LET four == SelectSeq(events, LAMBDA e :
                    e[1] = kind /\ e[2] \in {"vbi_idx", "fp", "hdr", "tmp_ctx"})
    IN  [k \in 1..Len(four) |-> four[k][2]]

C12_ReleaseReversesAcquire ==
    ctx.state = "closed" =>
        LET acq == OwnedEvents(ctx.events, "acquire")
            rel == OwnedEvents(ctx.events, "release")
        IN  /\ acq = <<"vbi_idx", "fp", "hdr", "tmp_ctx">>
            /\ rel = <<"tmp_ctx", "hdr", "fp", "vbi_idx">>
            /\ Len(rel) = Len(acq)
            /\ \A k \in 1..Len(acq) : rel[k] = acq[Len(acq) + 1 - k]

\* a session that was loaded has been closed
C12_Witness ==
    /\ ctx.state = "closed"
    /\ Len(OwnedEvents(ctx.events, "release")) = 4
    /\ out.op = "vcf_load" /\ ~out.error

(***************************************************************************)
(* C13: when the index file is missing, truncated or malformed, every      *)
(* operation that loads an index raises an error at once: it makes no      *)
(* second load attempt and neither rebuilds nor overwrites the index file. *)
(***************************************************************************)
C13_FailedLoadIsFatal ==
    (out.op \in {"load_index", "vcf_load"} /\ out.first = LoadNull) =>
        /\ out.error
        /\ out.loads = 1
        /\ ~out.rebuilt
        /\ vbi = out.before

(***************************************************************************)
(* C14: a materialization on a session of its own, sharing the loaded      *)
(* Index with materializations on another session, returns under every     *)
(* interleaving of the seek and decode steps the rows it returns when run  *)
(* alone; two materializations interleaved on one session can reach a      *)
(* state where a decode reads from the position the other's seek set.      *)
(***************************************************************************)
\* whether materialization i is the only one on its session
OwnSession(i) ==
    \A j \in 1..Len(qs) : j # i => qs[j].ctxid # qs[i].ctxid

C14_OwnHandleRowsAsAlone ==
    ctx.state = "handles" =>
        \A i \in 1..Len(qs) :
            OwnSession(i) =>
                /\ ~qs[i].crossed
                /\ qs[i].pc = "done" =>
                      qs[i].rows = vbi_query_variants_basic(src, idx, qs[i].hits, FALSE)
                /\ \A k \in 1..Len(qs[i].rows) :
                      qs[i].rows[k] =
                          vbi_query_variants_basic(src, idx, qs[i].hits, FALSE)[k]

\* all three are done; the one on its own session read two records while
\* the others ran, and on the shared session a decode read from the
\* position the other materialization set and returned another record's row
C14_Witness ==
    /\ ctx.state = "handles"
    /\ \A i \in 1..Len(qs) : qs[i].pc = "done"
    /\ \E i \in 1..Len(qs) : OwnSession(i) /\ Len(qs[i].rows) >= 2
    /\ \E i \in 1..Len(qs) :
          /\ ~OwnSession(i)
          /\ qs[i].crossed
          /\ qs[i].rows # vbi_query_variants_basic(src, idx, qs[i].hits, FALSE)

(***************************************************************************)
(* C15: do_index reports failure (a non-zero status or a raised error)     *)
(* whenever the open of the source, the read of its header, the creation   *)
(* of the destination or any write to it fails or is short; it reports     *)
(* success only when the complete index has been written.                  *)
(***************************************************************************)
C15_FailureIsReported ==
    bld.pc \in {"done", "failed"} =>
        /\ bld.fault # "none" => bld.status # "0"
        /\ (bld.status = "0" /\ vbi.damage \in {"none", "short"}) =>
              (vbi.exists /\ vbi.bytes = IndexBytes(bld))

C17_EngineRangeIsOneBased ==
    out.op = "vbi_index_query_index_range" =>
        LET lo == Max(out.arg[1], 1)
            hi == Min(out.arg[2], idx.num_marker)
        IN  /\ out.res = IndexRangeHits(idx.num_marker, out.arg[1], out.arg[2])
            /\ out.res = IF hi < lo THEN <<>>
                         ELSE [k \in 1..(hi - lo + 1) |-> lo + k - 2]

(***************************************************************************)
(* C18: for a non-empty id list the columns are the nine core columns in   *)
(* order, then CSQ iff the header declares CSQ and include_info, ANN iff    *)
(* the header declares ANN and include_info, INFO iff include_info,        *)
(* FORMAT_IDS iff include_format, GT iff include_genotypes, whether or not *)
(* records of the batch failed to decode.                                  *)
(***************************************************************************)
C18_ColumnsFromHeaderAndFlags ==
    (out.op = "table" /\ out.hits # <<>>) =>
        LET opt == <<[name |-> "CSQ", on |-> src.csq_hdr.declared /\ out.inc_info],
                     [name |-> "ANN", on |-> src.ann_hdr.declared /\ out.inc_info],
                     [name |-> "INFO", on |-> out.inc_info],
                     [name |-> "FORMAT_IDS", on |-> out.inc_format],
                     [name |-> "GT", on |-> out.inc_genotypes]>>
            on == SelectSeq(opt, LAMBDA o : o.on)
        IN  /\ Len(out.names) = 9 + Len(on)
            /\ SubSeq(out.names, 1, 9) =
                  <<"chrom", "pos", "id", "ref", "alt", "qual", "filter",
                    "n_allele", "index">>
            /\ \A k \in 1..Len(on) : out.names[9 + k] = on[k].name

\* a table of two rows, the first of a failed fetch, from a header that
\* declares CSQ, asked for without info but with format and genotypes
C18_Witness ==
    /\ out.op = "table"
    /\ Len(out.hits) = 2
    /\ out.cells[1].failed /\ ~out.cells[2].failed
    /\ src.csq_hdr.declared
    /\ ~out.inc_info /\ out.inc_format /\ out.inc_genotypes

(***************************************************************************)
(* C19: when the header declares CSQ or ANN with pipe-delimited sub-fields, *)
(* info is requested and a decoded record carries the field, the cell is a *)
(* sub-table keyed by the declared sub-field names; the placeholder stands *)
(* only where the field is absent or the header names no sub-fields.       *)
(***************************************************************************)
\* whether cell is right for a decoded record carrying value under decl
AnnotationCellAsClaimed(cell, decl, value) ==
    IF value # <<>> /\ decl.fields # <<>>
    THEN cell.kind = "table" /\ cell.names = decl.fields
    ELSE cell = R_NilValue

C19_AnnotationSubTable ==
    (out.op = "table" /\ out.inc_info) =>
        \A k \in 1..Len(out.cells) :
            ~out.cells[k].failed =>
                /\ src.csq_hdr.declared =>
                      AnnotationCellAsClaimed(out.cells[k].CSQ, src.csq_hdr,
                                              out.cells[k].rec.csq)
                /\ src.ann_hdr.declared =>
                      AnnotationCellAsClaimed(out.cells[k].ANN, src.ann_hdr,
                                              out.cells[k].rec.ann)

(***************************************************************************)
(* C20: the seek token the builder records is of the kind the materializer *)
(* consumes for the same source: the block virtual offset and the block    *)
(* seek for a block-compressed source, the plain byte offset and the plain *)
(* byte seek for any other; so the token of record i brings the            *)
(* materializer to record i.                                               *)
(***************************************************************************)
C20_TokenKindMatchesSeek ==
    out.op = "fetch" =>
        /\ out.tell = out.seek
        /\ \A i \in 1..idx.num_marker :
              /\ idx.offsets[i] = HdrLen + i - 1
              /\ out.got[i].ok
              /\ out.got[i].rec = src.recs[i]

\* the text the GT cell is to hold for sample s (0-based) from value p on
RECURSIVE GtSampleAsClaimed(_, _, _, _)
GtSampleAsClaimed(gt, s, ploidy, p) ==
    IF p >= ploidy \/ gt[s * ploidy + p + 1] = bcf_int32_vector_end THEN <<>>
    ELSE (IF p > 0 THEN <<"/">> ELSE <<>>)
         \o (IF gt[s * ploidy + p + 1] \div 2 = 0 THEN <<".">>
             ELSE IntText(bcf_gt_allele(gt[s * ploidy + p + 1])))
         \o GtSampleAsClaimed(gt, s, ploidy, p + 1)

RECURSIVE GtCellAsClaimed(_, _, _)
GtCellAsClaimed(gt, ns, s) ==
    IF s >= ns THEN <<>>
    ELSE (IF s > 0 THEN <<";">> ELSE <<>>)
         \o GtSampleAsClaimed(gt, s, Len(gt) \div ns, 0)
         \o GtCellAsClaimed(gt, ns, s + 1)

(***************************************************************************)
(* C21: the GT cell of a decoded record is the per-sample strings in       *)
(* sample order joined by ';'; a sample's string is its allele indices     *)
(* joined by '/', a missing allele written '.'; a sample padded with the   *)
(* vector-end marker contributes only its real alleles, with one '/'       *)
(* between consecutive alleles and no trailing '/'.                        *)
(***************************************************************************)
C21_GtCellText ==
    out.op = "GT" => out.cell = GtCellAsClaimed(src.gt, src.ns, 0)

\* the text the INFO cell is to hold for the fields from the j-th on; first
\* tells that no entry was written yet
RECURSIVE InfoCellAsClaimed(_, _, _)
InfoCellAsClaimed(info, j, first) ==
    IF j > Len(info) THEN <<>>
    ELSE IF ~info[j].resolved THEN InfoCellAsClaimed(info, j + 1, first)
    ELSE (IF first THEN <<>> ELSE <<";">>)
         \o <<info[j].key>>
         \o (IF info[j].len = 0 THEN <<>>
             ELSE <<"=">> \o (IF info[j].type = "CHAR" THEN info[j].text
                              ELSE JoinValues(info[j].vals, 1)))
         \o InfoCellAsClaimed(info, j + 1, FALSE)

(***************************************************************************)
(* C22: the INFO cell of a decoded record lists every info field present   *)
(* once, in record order, as 'key' or 'key=value' entries separated by     *)
(* exactly one ';' (none leading, trailing or doubled, also when a field   *)
(* with an unresolved key is skipped), and every field holding a value of  *)
(* any storage type has its comma-joined values after '='.                 *)
(***************************************************************************)
C22_InfoCellText ==
    (out.op = "INFO" /\ \E j \in 1..Len(src.info) : src.info[j].resolved)
        => out.cell = InfoCellAsClaimed(src.info, 1, TRUE)

(***************************************************************************)
(* C23: the standard error of every started child command is /dev/null     *)
(* when capture_stderr is false and the stderr file when it is true; no    *)
(* child keeps the standard error of the calling process.                  *)
(***************************************************************************)
C23_ChildStderrRedirected ==
    \A i \in 1..Len(qs) :
        qs[i].state = "running" =>
            qs[i].stderr = IF src.capture_stderr THEN "stderr_file" ELSE "/dev/null"

\* every command of the pipeline was started and none is still before execv
AllStarted ==
    /\ Len(qs) = src.n
    /\ \A i \in 1..Len(qs) : qs[i].state \in {"running", "exited", "reaped"}
    /\ ctx.pc \in {"wait", "done"}

\* the pipe ends are held as the pipeline needs them
PipeEndsHeld ==
    AllStarted =>
        /\ ctx.fds = {}
        /\ \A i \in 1..Len(qs) :
              qs[i].state = "running" =>
                  qs[i].fds = {e \in {<<i - 1, "r">>, <<i, "w">>} :
                                  e[1] \in 1..(src.n - 1)}

\* the call has returned one status per command, in command order
PipelineReturned ==
    /\ ctx.pc = "done"
    /\ out.op = "pipeline" /\ ~out.error
    /\ Len(out.statuses) = src.n
    /\ \A i \in 1..src.n :
          /\ qs[i].state = "reaped"
          /\ out.statuses[i] = IF qs[i].exited THEN qs[i].code ELSE -1

(***************************************************************************)
(* C29: once all children are started the parent holds no end of any pipe  *)
(* while it waits and child i holds only the read end of pipe i-1 and the  *)
(* write end of pipe i; and when every command exits on end-of-input or on *)
(* a write error the call eventually returns with every child waited for   *)
(* and one exit status per command (the exit code, or -1), in command      *)
(* order.                                                                  *)
(***************************************************************************)
C29_PipelineDrains ==
    /\ []PipeEndsHeld
    /\ (AllStarted ~> PipelineReturned)

C29_Witness ==
    /\ PipelineReturned
    /\ src.n = MaxCommands
    /\ \E i \in 1..src.n : ~qs[i].exited
    /\ \E i \in 1..src.n : qs[i].exited /\ qs[i].code = 1

\* the resources events leaves acquired and not released
Unreleased(events) ==
    {e[2] : e \in {events[k] : k \in {j \in 1..Len(events) : events[j][1] = "acquire"}}}
    \ {e[2] : e \in {events[k] : k \in {j \in 1..Len(events) : events[j][1] = "release"}}}

(***************************************************************************)
(* C25: on every failure path of RC_VBI_vcf_load and of do_index, every    *)
(* resource the call acquired has been released when the error reaches the *)
(* caller, and no context is returned.                                     *)
(***************************************************************************)
C25_FailureReleasesAll ==
    (out.op = "vcf_load" /\ out.error) =>
        /\ Unreleased(ctx.events) = {}
        /\ ctx.vbi_idx = NoIdx

\* how often events releases the resource what
ReleaseCount(events, what) ==
    Cardinality({k \in 1..Len(events) : events[k] = Release(what)})

(***************************************************************************)
(* C24: after RC_VBI_vcf_context_finalizer closed a session, every later   *)
(* operation on the same external pointer fails with an invalid-context    *)
(* error without touching the released handle, header, Index or buffers,   *)
(* and a second invocation of the finalizer releases nothing again.        *)
(***************************************************************************)
C24_ClosedContextIsInert ==
    /\ \A k \in 1..Len(qs) :
          (qs[k].closed /\ qs[k].op # "RC_VBI_vcf_context_finalizer")
              => qs[k].error /\ qs[k].touched = {}
    /\ ctx.state = "closed" =>
          \A what \in {"tmp_ctx", "hdr", "fp", "vbi_idx", "header_meta", "ctx"} :
              ReleaseCount(ctx.events, what) = 1

\* the finalizer ran, then a query was made on the closed session
C24_Witness ==
    /\ ctx.state = "closed"
    /\ Len(qs) = MaxCalls
    /\ qs[1].op = "RC_VBI_vcf_context_finalizer" /\ ~qs[1].closed
    /\ qs[MaxCalls].op = "RC_VBI_query_region" /\ qs[MaxCalls].closed

(***************************************************************************)
(* C26: for every token, with or without a colon, parse_region writes at   *)
(* most sizeof(chrom) bytes into the Region's chromosome buffer and leaves *)
(* it terminated: a chromosome part that does not fit is truncated in the  *)
(* colon form as in the colon-free form, never written past the buffer.    *)
(***************************************************************************)
C26_ChromStaysInBuffer ==
    out.op = "parse" =>
        \A k \in 1..Len(out.regions) :
            /\ ~out.regions[k].overflow
            /\ Len(out.regions[k].chrom) <= ChromBufSize - 1

(***************************************************************************)
(* C27: when vbi_index_load fails at a read step, its cleanup frees only   *)
(* memory this call allocated: when reading the k-th chromosome-name entry *)
(* fails, only the name buffers that were allocated are freed, never a     *)
(* slot of the name table that was left uninitialised.                     *)
(***************************************************************************)
C27_CleanupFreesOwnMemory ==
    (vbi.exists /\ idx \in {LoadNull, LoadCrash}) =>
        FreedNameSlots(vbi.bytes) \subseteq AssignedNameSlots(vbi.bytes)

\* origin + offset of the last seek, as integers
SeekTarget ==
    out.arg + (CASE out.whence = "SEEK_SET" -> 0
                 [] out.whence = "SEEK_CUR" -> out.before
                 [] OTHER -> ctx.length)

(***************************************************************************)
(* C28: in the memory-mapped backend the cursor always satisfies           *)
(* 0 <= pos <= length; a read or write of n bytes transfers                *)
(* min(n, length - pos) bytes and advances pos by that amount; a seek      *)
(* whose target origin + offset lies outside [0, length], or whose whence  *)
(* is unknown, returns -1 and leaves pos unchanged; a successful seek      *)
(* returns the new pos.                                                    *)
(***************************************************************************)
C28_CursorInBounds ==
    /\ 0 <= ctx.pos /\ ctx.pos <= ctx.length
    /\ out.op \in {"read", "write"} =>
          /\ out.ret = Min(out.arg, ctx.length - out.before)
          /\ ctx.pos = out.before + out.ret
    /\ out.op = "seek" =>
          IF out.whence = "other" \/ SeekTarget < 0 \/ SeekTarget > ctx.length
          THEN out.ret = -1 /\ ctx.pos = out.before
          ELSE out.ret = SeekTarget /\ ctx.pos = SeekTarget

\* a seek from the middle of the file to before its start was refused
C28_Witness ==
    /\ out.op = "seek" /\ out.whence = "SEEK_CUR"
    /\ out.before > 0 /\ out.arg < 0 /\ out.before + out.arg < 0
    /\ out.ret = -1

\* the distinct chromosome names of the first n records of recs, in order of
\* first occurrence
RECURSIVE FirstOccurrences(_, _, _)
FirstOccurrences(recs, n, k) ==
    IF k > n THEN <<>>
    ELSE IF \E j \in 1..(k - 1) : recs[j].chrom = recs[k].chrom
         THEN FirstOccurrences(recs, n, k + 1)
         ELSE <<recs[k].chrom>> \o FirstOccurrences(recs, n, k + 1)

\* s is the beginning of u
IsPrefix(s, u) == Len(s) <= Len(u) /\ SubSeq(u, 1, Len(s)) = s

\* the builder's arrays fit their capacities and its table has each name
\* once, in order of first occurrence
BuilderInCapacity ==
    bld.pc \in {"scan", "done"} =>
        /\ Len(bld.chrom_ids) <= bld.alloc
        /\ Len(bld.positions) = Len(bld.chrom_ids)
        /\ Len(bld.offsets) = Len(bld.chrom_ids)
        /\ Len(bld.chrom_names) <= bld.max_chroms
        /\ ~bld.wrote_past
        /\ bld.chrom_names = FirstOccurrences(src.recs, Len(bld.chrom_ids), 1)

\* a step of the scan loop keeps every entry stored before it
BuilderKeepsEntries ==
    (bld.pc = "scan" /\ bld'.pc = "scan") =>
        /\ IsPrefix(bld.chrom_ids, bld'.chrom_ids)
        /\ IsPrefix(bld.positions, bld'.positions)
        /\ IsPrefix(bld.offsets, bld'.offsets)
        /\ IsPrefix(bld.chrom_names, bld'.chrom_names)
        /\ bld'.alloc \in {bld.alloc, 2 * bld.alloc}
        /\ bld'.max_chroms \in {bld.max_chroms, 2 * bld.max_chroms}

(***************************************************************************)
(* C30: throughout the builder's scan loop the number of stored records    *)
(* never exceeds the capacity of the three parallel arrays and the number  *)
(* of interned names never exceeds the capacity of the chromosome table at *)
(* any write; each capacity doubling preserves every earlier entry; the    *)
(* chromosome table never holds a name twice and its names are in order of *)
(* first occurrence in the file.                                           *)
(***************************************************************************)
C30_BuilderCapacities ==
    /\ []BuilderInCapacity
    /\ [][BuilderKeepsEntries]_vars

\* the arrays and the chromosome table were both doubled during the scan
C30_Witness ==
    /\ bld.pc = "done"
    /\ bld.alloc > InitAlloc
    /\ bld.max_chroms > InitMaxChroms
    /\ Len(bld.chrom_ids) = MaxRecs

(***************************************************************************)
(* C5: round trip.  An index file written by do_index and loaded as it was *)
(* written loads, with the builder's sample_count, record_count,           *)
(* chromosome table (same names, same order) and the same (chrom_id,       *)
(* position, offset) at every record index.                                *)
(***************************************************************************)
C5_RoundTrip ==
    (idx # NoIdx /\ vbi.exists /\ vbi.damage = "none") =>
        /\ idx.state = "loaded"
        /\ idx.num_sample = bld.num_sample
        /\ idx.num_marker = Len(bld.chrom_ids)
        /\ idx.n_chroms = Len(bld.chrom_names)
        /\ idx.chrom_names = bld.chrom_names
        /\ idx.chrom_ids = bld.chrom_ids
        /\ idx.positions = bld.positions
        /\ idx.offsets = bld.offsets

\* an undamaged index of two records on two chromosomes, one of them at a
\* position beyond int32_t, of a source with samples, has been loaded
C5_Witness ==
    /\ idx.state = "loaded" /\ vbi.damage = "none"
    /\ idx.num_sample > 0
    /\ idx.num_marker = 2 /\ idx.n_chroms = 2
    /\ BigPos \in {idx.positions[i] : i \in 1..2}

(***************************************************************************)
(* C6: the builder records one entry per record of a sequential scan, in   *)
(* file order: entry i names the chromosome of record i through the        *)
(* chromosome table and holds its 1-based position, and record_count is    *)
(* the number of records the scan yields.                                  *)
(***************************************************************************)
\* the records an independent sequential scan yields from stream token tok
RECURSIVE SequentialScan(_, _)
SequentialScan(file, tok) ==
    LET rd == bcf_read(file, tok)
    IN  IF rd.ret # 0 THEN <<>>
        ELSE <<rd.rec>> \o SequentialScan(file, rd.tok)

C6_BuilderMatchesScan ==
    bld.pc = "done" =>
        LET scan == SequentialScan(src, HdrLen)
        IN  /\ Len(bld.chrom_ids) = Len(scan)
            /\ Len(bld.positions) = Len(scan)
            /\ vbi.damage = "none" => Field(vbi.bytes, 9, 8) = Len(scan)
            /\ \A i \in 1..Len(scan) :
                  /\ bld.chrom_ids[i] >= 0
                  /\ bld.chrom_ids[i] < Len(bld.chrom_names)
                  /\ bld.chrom_names[bld.chrom_ids[i] + 1] = scan[i].chrom
                  /\ bld.positions[i] = scan[i].pos + 1

\* a build of a file of two records on two different chromosomes has finished
C6_Witness ==
    /\ bld.pc = "done"
    /\ Len(bld.chrom_ids) = 2
    /\ bld.chrom_ids[1] # bld.chrom_ids[2]
    /\ bld.positions[2] > 1

(***************************************************************************)
(* C7: offset[i] is the stream position taken before record i is decoded:  *)
(* seeking the source to offset[i] and decoding one record yields record i *)
(* itself, never record i+1 and never end-of-stream.                       *)
(***************************************************************************)
C7_OffsetIsRecordStart ==
    bld.pc = "done" =>
        \A i \in 1..Len(bld.offsets) :
            LET rd == bcf_read(src, bld.offsets[i])
            IN  /\ rd.ret = 0
                /\ rd.rec = src.recs[i]
                /\ bld.offsets[i] = HdrLen + i - 1

(***************************************************************************)
(* C8: an index file cut short at any byte boundary makes vbi_index_load   *)
(* return NULL; it never returns a partially filled Index.                 *)
(***************************************************************************)
C8_TruncatedLoadsNull ==
    (vbi.damage = "cut" /\ idx # NoIdx) => idx = LoadNull

(***************************************************************************)
(* C9: every Index a load returns has chrom_id, position and offset arrays *)
(* of record_count entries and every chrom_id inside the chromosome table; *)
(* an index file that violates this is rejected (the load returns NULL).   *)
(***************************************************************************)
IndexInvariant(x) ==
    /\ Len(x.chrom_ids) = x.num_marker
    /\ Len(x.positions) = x.num_marker
    /\ Len(x.offsets) = x.num_marker
    /\ x.n_chroms = Len(x.chrom_names)
    /\ \A i \in 1..Len(x.chrom_ids) :
          x.chrom_ids[i] >= 0 /\ x.chrom_ids[i] < x.n_chroms

C9_LoadedIndexIsValid ==
    /\ idx.state = "loaded" => IndexInvariant(idx)
    /\ (vbi.damage = "chrom_id" /\ idx # NoIdx) => idx = LoadNull

====
